---- MODULE Spec2Model ----
(***************************************************************************)
(* A model of orgize: the lossless syntax tree of an Org document, the     *)
(* incremental edit Org::replace_range (src/src/replace.rs), the tree      *)
(* queries of src/src/org.rs and the typed accessors of src/src/ast.       *)
(*                                                                         *)
(* Text is a sequence of one-character strings.  A green token is a record *)
(* [kind, text]; a green node is a record [kind, children].  Offsets are   *)
(* 0-based byte offsets as in rowan's TextSize; a range is [start, end]    *)
(* with the end exclusive.                                                 *)
(***************************************************************************)
EXTENDS Integers, Sequences, FiniteSets, TLC

VARIABLES green, old, call, edits, fn, arg, ret, trav

vars == <<green, old, call, edits, fn, arg, ret, trav>>

(***************************************************************************)
(* Bounds.                                                                 *)
(***************************************************************************)
\* longest text of the exhaustively enumerated documents and edit results
MaxLen == 4

\* the most calls of replace_range made on one document
MaxEdits == 1

\* the characters the exhaustive enumeration draws from
Alphabet == {"*", " ", "\n"}

(***************************************************************************)
(* Text helpers.                                                           *)
(***************************************************************************)
Take(s, n) == SubSeq(s, 1, n)

Drop(s, n) == SubSeq(s, n + 1, Len(s))

\* str::replace_range: s with the bytes start..end replaced by w
StrReplaceRange(s, start, end, w) == Take(s, start) \o w \o Drop(s, end)

\* the number of leading characters of s that lie in set
LeadIn(s, set) ==
    CHOOSE k \in 0..Len(s) :
        /\ \A i \in 1..k : s[i] \in set
        /\ (k = Len(s) \/ s[k + 1] \notin set)

\* the number of leading characters of s that do not lie in set
LeadOut(s, set) ==
    CHOOSE k \in 0..Len(s) :
        /\ \A i \in 1..k : s[i] \notin set
        /\ (k = Len(s) \/ s[k + 1] \in set)

\* the number of trailing characters of s that lie in set
TrailIn(s, set) ==
    CHOOSE k \in 0..Len(s) :
        /\ \A i \in (Len(s) - k + 1)..Len(s) : s[i] \in set
        /\ (k = Len(s) \/ s[Len(s) - k] \notin set)

Eol == {"\n", "\r"}

EndsWithEol(s) == Len(s) > 0 /\ s[Len(s)] \in Eol

\* all texts over Alphabet of length at most n
Texts(n) == UNION {[1..k -> Alphabet] : k \in 0..n}

\* line_starts_iter: offset 0 and every offset right after a line break
LineStarts(s) == {0} \cup {i \in 1..Len(s) : s[i] \in Eol}

(***************************************************************************)
(* Green tree.                                                             *)
(***************************************************************************)
Token(kind, text) == [kind |-> kind, text |-> text]

Node(kind, children) == [kind |-> kind, children |-> children]

IsToken(e) == "text" \in DOMAIN e

\* NodeBuilder::ws / NodeBuilder::nl: an empty token is not pushed
OptToken(kind, text) == IF text = <<>> THEN <<>> ELSE <<Token(kind, text)>>

RECURSIVE TextOf(_)
\* GreenNode::to_string: the leaf texts in depth-first order
TextOf(e) ==
    IF IsToken(e) THEN e.text
    ELSE LET RECURSIVE Cat(_)
             Cat(i) == IF i > Len(e.children) THEN <<>>
                       ELSE TextOf(e.children[i]) \o Cat(i + 1)
         IN Cat(1)

TextLen(e) == Len(TextOf(e))

\* the offset of child i of node e relative to e's start
RECURSIVE ChildOffset(_, _)
ChildOffset(e, i) ==
    IF i = 1 THEN 0 ELSE ChildOffset(e, i - 1) + TextLen(e.children[i - 1])

(***************************************************************************)
(* The parser (headline_node, document_node and the combinators they use). *)
(* Inline objects and the element kinds other than the paragraph are not   *)
(* distinguished: a section is a list of paragraphs, each one TEXT token   *)
(* followed by its trailing BLANK_LINE tokens.  Every parser returns the   *)
(* nodes it built and the input it did not consume.                        *)
(***************************************************************************)
\* a headline starts at offset off of s: one or more stars, then a space
HeadlineStartAt(s, off) ==
    LET level == LeadIn(Drop(s, off), {"*"})
    IN level > 0 /\ off + level + 1 <= Len(s) /\ s[off + level + 1] = " "

\* the line starting at offset off of s holds nothing but spaces
BlankLineAt(s, off) ==
    LET k == LeadIn(Drop(s, off), {" "})
    IN (off + k < Len(s) /\ s[off + k + 1] \in Eol) \/ (off + k = Len(s) /\ k > 0)

\* the least element of a non-empty set of numbers, or otherwise when it is empty
MinOr(set, otherwise) ==
    IF set = {} THEN otherwise ELSE CHOOSE o \in set : \A p \in set : o <= p

\* trim_line_end: the first line of s as content, trailing spaces and line break
trim_line_end(s) ==
    LET n == LeadOut(s, Eol)
        ws == TrailIn(Take(s, n), {" "})
        nl == IF n < Len(s) THEN 1 ELSE 0
    IN [content |-> Take(s, n - ws),
        ws |-> SubSeq(s, n - ws + 1, n),
        nl |-> SubSeq(s, n + 1, n + nl),
        rest |-> Drop(s, n + nl)]

RECURSIVE blank_lines(_)
\* blank_lines: the leading whitespace-only lines of s, one BLANK_LINE each
blank_lines(s) ==
    IF ~BlankLineAt(s, 0) THEN [tokens |-> <<>>, rest |-> s]
    ELSE LET More(n, more) ==
                 [tokens |-> <<Token("BLANK_LINE", Take(s, n))>> \o more.tokens,
                  rest |-> more.rest]
             Line(n) == More(n, blank_lines(Drop(s, n)))
         IN Line(IF LeadIn(s, {" "}) < Len(s) THEN LeadIn(s, {" "}) + 1 ELSE Len(s))

\* a paragraph: its lines as one TEXT token, then its trailing blank lines
paragraph_node(text, post) ==
    [nodes |-> <<Node("PARAGRAPH", <<Token("TEXT", text)>> \o post.tokens)>>,
     rest |-> post.rest]

RECURSIVE element_nodes(_)
\* element_nodes: the paragraphs of a section text
element_nodes(s) ==
    IF s = <<>> THEN <<>>
    ELSE LET Rest(p) == p.nodes \o element_nodes(p.rest)
             Cut(cut) == Rest(paragraph_node(Take(s, cut), blank_lines(Drop(s, cut))))
         IN Cut(MinOr({o \in LineStarts(s) : o > 0 /\ o < Len(s) /\ BlankLineAt(s, o)},
                      Len(s)))

\* section_text: the length of the text before the next headline start
section_text(s) == MinOr({o \in LineStarts(s) : HeadlineStartAt(s, o)}, Len(s))

\* section_node: the section in front of s, if it is not empty
section_node(s) ==
    LET Cut(cut) ==
            IF cut = 0 THEN [nodes |-> <<>>, rest |-> s]
            ELSE [nodes |-> <<Node("SECTION", element_nodes(Take(s, cut)))>>,
                  rest |-> Drop(s, cut)]
    IN Cut(section_text(s))

Failed(s) == [ok |-> FALSE, nodes |-> <<>>, rest |-> s]

\* the result of a parser that built node from children and left rest
Parsed(kind, children, rest) ==
    [ok |-> TRUE, nodes |-> <<Node(kind, children)>>, rest |-> rest]

RECURSIVE headline_node(_)
RECURSIVE sub_headlines(_, _)
\* the loop of headline_node: the following headlines of a level above level
sub_headlines(s, level) ==
    IF s = <<>> \/ LeadIn(s, {"*"}) <= level THEN [nodes |-> <<>>, rest |-> s]
    ELSE LET More(h, more) == [nodes |-> h.nodes \o more.nodes, rest |-> more.rest]
             One(h) == IF ~h.ok THEN [nodes |-> <<>>, rest |-> s]
                       ELSE More(h, sub_headlines(h.rest, level))
         IN One(headline_node(s))

\* the part of a headline after its title line: blank lines, section, sub-headlines
headline_body(level, tokens, s) ==
    LET Subs(children, subs) == Parsed("HEADLINE", children \o subs.nodes, subs.rest)
        Section(children, section) ==
            Subs(children \o section.nodes, sub_headlines(section.rest, level))
        Blank(post) == Section(tokens \o post.tokens, section_node(post.rest))
    IN Blank(blank_lines(s))

\* the title line of a headline: STARS SPACE TITLE EOL
headline_title(level, ws, s) ==
    LET Line(line) ==
            headline_body(level,
                <<Token("HEADLINE_STARS", Take(s, level))>>
                \o OptToken("WHITESPACE", SubSeq(s, level + 1, level + ws))
                \o (IF line.content = <<>> THEN <<>>
                    ELSE <<Node("HEADLINE_TITLE", <<Token("TEXT", line.content)>>)>>)
                \o OptToken("WHITESPACE", line.ws)
                \o OptToken("NEW_LINE", line.nl),
                line.rest)
    IN Line(trim_line_end(Drop(s, level + ws)))

\* headline_node: fails unless s starts with a headline
headline_node(s) ==
    IF ~HeadlineStartAt(s, 0) THEN Failed(s)
    ELSE headline_title(LeadIn(s, {"*"}), LeadIn(Drop(s, LeadIn(s, {"*"})), {" "}), s)

\* document_node: blank lines, the zeroth section, then headlines to the end;
\* it fails when a headline does
document_node(s) ==
    LET Headlines(children, hs) ==
            [ok |-> hs.rest = <<>>, nodes |-> <<Node("DOCUMENT", children \o hs.nodes)>>,
             rest |-> hs.rest]
        Section(children, section) ==
            Headlines(children \o section.nodes, sub_headlines(section.rest, 0))
        Blank(pre) == Section(pre.tokens, section_node(pre.rest))
    IN Blank(blank_lines(s))

(***************************************************************************)
(* Red tree: nodes with absolute offsets (rowan).                          *)
(***************************************************************************)
IsHeadline(e) == ~IsToken(e) /\ e.kind = "HEADLINE"

\* Headline::level: the number of leading stars
HeadlineLevel(h) == LeadIn(TextOf(h), {"*"})

\* TextRange::contains_range
contains_range(outer, inner) == outer.start <= inner.start /\ inner.end <= outer.end

\* TextRange::contains
contains(range, offset) == range.start <= offset /\ offset < range.end

Range(a, b) == [start |-> a, end |-> b]

RECURSIVE NodeAt(_, _)
\* the node reached from e along the child indexes of path
NodeAt(e, path) ==
    IF path = <<>> THEN e ELSE NodeAt(e.children[Head(path)], Tail(path))

RECURSIVE StartOf(_, _)
\* the absolute offset of the node reached from the root e along path
StartOf(e, path) ==
    IF path = <<>> THEN 0
    ELSE ChildOffset(e, Head(path)) + StartOf(e.children[Head(path)], Tail(path))

\* SyntaxNode::text_range of the node reached from the root e along path
RangeOf(e, path) == Range(StartOf(e, path), StartOf(e, path) + TextLen(NodeAt(e, path)))

RECURSIVE replace_with(_, _, _)
\* SyntaxNode::replace_with: the root with the node at path replaced by new
replace_with(e, path, new) ==
    IF path = <<>> THEN new
    ELSE Node(e.kind,
              [i \in 1..Len(e.children) |->
                  IF i = Head(path) THEN replace_with(e.children[i], Tail(path), new)
                  ELSE e.children[i]])

RECURSIVE Leaves(_, _)
\* the tokens under e, in order, each with its absolute start offset
Leaves(e, start) ==
    IF IsToken(e) THEN <<[text |-> e.text, start |-> start]>>
    ELSE LET RECURSIVE Cat(_)
             Cat(i) == IF i > Len(e.children) THEN <<>>
                       ELSE Leaves(e.children[i], start + ChildOffset(e, i)) \o Cat(i + 1)
         IN Cat(1)

\* SyntaxNode::token_at_offset: the non-empty tokens that touch offset, at most two
token_at_offset(leaves, offset) ==
    SelectSeq(leaves, LAMBDA t : /\ t.text # <<>>
                                 /\ t.start <= offset
                                 /\ offset <= t.start + Len(t.text))

\* the match of follows_newline on None, Single(t) and Between(t, _)
FollowsNewlineAt(at, offset) ==
    CASE Len(at) = 0 -> FALSE
      [] Len(at) = 1 -> EndsWithEol(Drop(at[1].text, offset - at[1].start))
      [] OTHER -> EndsWithEol(at[1].text)

\* follows_newline(syntax, offset) for the node e that starts at start
follows_newline(e, start, offset) ==
    FollowsNewlineAt(token_at_offset(Leaves(e, start), offset), offset)

(***************************************************************************)
(* The shapes of an edit (src/src/replace.rs).                             *)
(***************************************************************************)
Shape(shape, level, path) == [shape |-> shape, level |-> level, path |-> path]

\* ChildShape as it would be if the body of a headline began at its first star
ChildShapeFromStart(child, r, range) ==
    CASE ~IsHeadline(child) -> "None"
      [] r = range -> "Exact"
      [] contains_range(r, range) -> "Inside"
      [] OTHER -> "None"

\* ChildShape as it would be if the body of a headline began after the line
\* break of its first line
ChildShapeAfterHeader(child, r, range) ==
    LET Body(n) == Range(r.start + n, r.end)
    IN CASE ~IsHeadline(child) -> "None"
         [] r = range -> "Exact"
         [] LeadOut(TextOf(child), Eol) = TextLen(child) -> "None"
         [] contains_range(Body(LeadOut(TextOf(child), Eol) + 1), range) -> "Inside"
         [] OTHER -> "None"

\* one pass of the for loop of RangeShape::new over the child at r = [start, end]:
\* the range is the child's, or lies in its body, or neither; TextRange::new
\* panics when the body would start behind the child's end
ChildShape(child, r, range) ==
    CASE ~IsHeadline(child) -> "None"
      [] r = range -> "Exact"
      [] r.start + HeadlineLevel(child) + 1 > r.end -> "Panic"
      [] contains_range(Range(r.start + HeadlineLevel(child) + 1, r.end), range) -> "Inside"
      [] OTHER -> "None"

\* the loop of RangeShape::new as it would be if it stopped at the first
\* headline that holds the range, without going on to that headline's children
RangeShapeLoopTop(root, path, range, result) ==
    LET First(hit) ==
            LET Hit(kind) ==
                    CASE kind = "Exact" ->
                             Shape("ExactHeadline",
                                   HeadlineLevel(NodeAt(root, Append(path, hit))),
                                   Append(path, hit))
                      [] kind = "Panic" -> Shape("Panic", 0, <<>>)
                      [] OTHER ->
                             Shape("InsideHeadline",
                                   HeadlineLevel(NodeAt(root, Append(path, hit))),
                                   Append(path, hit))
            IN IF hit = 0 THEN result
               ELSE Hit(ChildShape(NodeAt(root, Append(path, hit)),
                                   RangeOf(root, Append(path, hit)), range))
    IN First(MinOr({i \in 1..Len(NodeAt(root, path).children) :
                       ChildShape(NodeAt(root, Append(path, i)),
                                  RangeOf(root, Append(path, i)), range) # "None"}, 0))

RECURSIVE RangeShapeLoop(_, _, _, _)
\* the loop 'l of RangeShape::new over the headline children of the node at path
RangeShapeLoop(root, path, range, result) ==
    LET First(hit) ==
            LET Hit(kind) ==
                    CASE kind = "Exact" ->
                             Shape("ExactHeadline",
                                   HeadlineLevel(NodeAt(root, Append(path, hit))),
                                   Append(path, hit))
                      [] kind = "Panic" -> Shape("Panic", 0, <<>>)
                      [] OTHER ->
                             RangeShapeLoop(root, Append(path, hit), range,
                                 Shape("InsideHeadline",
                                       HeadlineLevel(NodeAt(root, Append(path, hit))),
                                       Append(path, hit)))
            IN IF hit = 0 THEN result
               ELSE Hit(ChildShape(NodeAt(root, Append(path, hit)),
                                   RangeOf(root, Append(path, hit)), range))
    IN First(MinOr({i \in 1..Len(NodeAt(root, path).children) :
                       ChildShape(NodeAt(root, Append(path, i)),
                                  RangeOf(root, Append(path, i)), range) # "None"}, 0))

\* RangeShape::new(document, range)
RangeShape(root, range) == RangeShapeLoop(root, <<>>, range, Shape("Other", 0, <<>>))

\* ReplaceWithShapeStep as it would be if a later headline of the same level
\* left ExactHeadline in place
ReplaceWithShapeStepStrict(text, start, result) ==
    LET level == LeadIn(Drop(text, start), {"*"})
    IN CASE level = 0 -> result
         [] ~(start + level + 1 <= Len(text) /\ text[start + level + 1] = " ") -> result
         [] result.shape = "IncludeHeadline" ->
                IF level < result.level THEN Shape("IncludeHeadline", level, <<>>)
                ELSE result
         [] result.shape = "ExactHeadline" ->
                IF level < result.level THEN Shape("IncludeHeadline", level, <<>>)
                ELSE result
         [] OTHER ->
                IF start = 0 THEN Shape("ExactHeadline", level, <<>>)
                ELSE Shape("IncludeHeadline", level, <<>>)

\* one pass of the loop of ReplaceWithShape::new, for the line that starts at start
ReplaceWithShapeStep(text, start, result) ==
    LET level == LeadIn(Drop(text, start), {"*"})
    IN CASE level = 0 -> result
         [] ~(start + level + 1 <= Len(text) /\ text[start + level + 1] = " ") -> result
         [] result.shape = "IncludeHeadline" ->
                IF level < result.level THEN Shape("IncludeHeadline", level, <<>>)
                ELSE result
         [] result.shape = "ExactHeadline" ->
                IF level <= result.level THEN Shape("IncludeHeadline", level, <<>>)
                ELSE result
         [] OTHER ->
                IF start = 0 THEN Shape("ExactHeadline", level, <<>>)
                ELSE Shape("IncludeHeadline", level, <<>>)

RECURSIVE ReplaceWithShapeFrom(_, _, _)
\* the loop of ReplaceWithShape::new over the line starts from offset start on
ReplaceWithShapeFrom(text, start, result) ==
    IF start > Len(text) THEN result
    ELSE ReplaceWithShapeFrom(text, start + 1,
             IF start \in LineStarts(text) THEN ReplaceWithShapeStep(text, start, result)
             ELSE result)

\* ReplaceWithShape::new(text)
ReplaceWithShape(text) == ReplaceWithShapeFrom(text, 0, Shape("Other", 0, <<>>))

(***************************************************************************)
(* The queries of src/src/org.rs.  A found node is given by its path from  *)
(* the root; an Option is a sequence of length 0 (None) or 1 (Some).       *)
(***************************************************************************)
\* Iterator::find_map over the child nodes of a node: the first Some among opts
FindMap(opts) == IF \A i \in 1..Len(opts) : opts[i] = <<>> THEN <<>>
                 ELSE opts[MinOr({i \in 1..Len(opts) : opts[i] # <<>>}, 1)]

\* first_node_find as it would be with the children searched before the node
first_node_inner(root, path, kind) ==
    LET RECURSIVE Find(_)
        Find(p) ==
            LET Below(found) ==
                    IF found # <<>> THEN found
                    ELSE IF NodeAt(root, p).kind = kind THEN <<p>> ELSE <<>>
            IN Below(FindMap([i \in 1..Len(NodeAt(root, p).children) |->
                                 IF IsToken(NodeAt(root, Append(p, i))) THEN <<>>
                                 ELSE Find(Append(p, i))]))
    IN Find(path)

RECURSIVE first_node_find(_, _, _)
\* find of Org::first_node, applied to the node at path: the node itself when
\* it casts to kind, else the first find among its child nodes
first_node_find(root, path, kind) ==
    IF NodeAt(root, path).kind = kind THEN <<path>>
    ELSE FindMap([i \in 1..Len(NodeAt(root, path).children) |->
                     IF IsToken(NodeAt(root, Append(path, i))) THEN <<>>
                     ELSE first_node_find(root, Append(path, i), kind)])

\* Org::first_node::<N>
first_node(g, kind) == first_node_find(g, <<>>, kind)

RECURSIVE node_at_offset_find(_, _, _, _)
\* find of Org::node_at_offset, applied to the node at path
node_at_offset_find(root, path, kind, offset) ==
    IF ~contains(RangeOf(root, path), offset) THEN <<>>
    ELSE IF NodeAt(root, path).kind = kind THEN <<path>>
    ELSE FindMap([i \in 1..Len(NodeAt(root, path).children) |->
                     IF IsToken(NodeAt(root, Append(path, i))) THEN <<>>
                     ELSE node_at_offset_find(root, Append(path, i), kind, offset)])

\* Org::node_at_offset::<N>
node_at_offset(g, kind, offset) == node_at_offset_find(g, <<>>, kind, offset)

\* Headline::title_raw: the text of the headline's title
title_raw(h) ==
    LET titles == SelectSeq(h.children, LAMBDA c : ~IsToken(c) /\ c.kind = "HEADLINE_TITLE")
    IN IF titles = <<>> THEN <<>> ELSE TextOf(titles[1])

RECURSIVE TextOfNoBlank(_)
\* to_org as it would be if the blank lines were left out
TextOfNoBlank(e) ==
    IF IsToken(e) THEN (IF e.kind = "BLANK_LINE" THEN <<>> ELSE e.text)
    ELSE LET RECURSIVE Cat(_)
             Cat(i) == IF i > Len(e.children) THEN <<>>
                       ELSE TextOfNoBlank(e.children[i]) \o Cat(i + 1)
         IN Cat(1)

\* Org::to_org
to_org(g) == TextOf(g)

(***************************************************************************)
(* Org::replace_range and its two paths.                                   *)
(***************************************************************************)
\* Decide as it would be without the comparison of the levels
DecideAnyLevel(g, rs, ws, range, w) ==
    IF /\ rs.shape = "ExactHeadline"
       /\ ws.shape = "ExactHeadline"
       /\ (RangeOf(g, rs.path).end = TextLen(g) \/ EndsWithEol(w))
    THEN "headline" ELSE "full"

\* Decide as it would be if a replacement that includes a headline of the
\* headline's own level were reparsed with the headline
DecideSameLevel(g, rs, ws, range, w) ==
    CASE /\ rs.shape \in {"ExactHeadline", "InsideHeadline"}
         /\ ws.shape = "IncludeHeadline"
         /\ rs.level <= ws.level -> "headline"
      [] /\ rs.shape = "ExactHeadline"
         /\ ws.shape = "ExactHeadline"
         /\ rs.level <= ws.level
         /\ (RangeOf(g, rs.path).end = TextLen(g) \/ EndsWithEol(w)) -> "headline"
      [] /\ rs.shape = "InsideHeadline"
         /\ ws.shape = "ExactHeadline"
         /\ rs.level <= ws.level
         /\ follows_newline(NodeAt(g, rs.path), StartOf(g, rs.path), range.start)
             -> "headline"
      [] OTHER -> "full"

\* the arm of the match in replace_range for the shapes rs and ws
Decide(g, rs, ws, range, w) ==
    CASE /\ rs.shape \in {"ExactHeadline", "InsideHeadline"}
         /\ ws.shape = "IncludeHeadline"
         /\ rs.level < ws.level -> "headline"
      [] /\ rs.shape = "ExactHeadline"
         /\ ws.shape = "ExactHeadline"
         /\ rs.level <= ws.level
         /\ (RangeOf(g, rs.path).end = TextLen(g) \/ EndsWithEol(w)) -> "headline"
      [] /\ rs.shape = "InsideHeadline"
         /\ ws.shape = "ExactHeadline"
         /\ rs.level <= ws.level
         /\ follows_newline(NodeAt(g, rs.path), StartOf(g, rs.path), range.start)
             -> "headline"
      [] OTHER -> "full"

\* .unwrap().1.into_node().unwrap() on a parser's result: the node it built,
\* whatever input it left; a failed parse panics
Unwrap(parsed) ==
    IF parsed.ok THEN [panic |-> FALSE, node |-> parsed.nodes[1]]
    ELSE [panic |-> TRUE, node |-> Node("DOCUMENT", <<>>)]

\* Org::full_parse: the document parsed from the edited text
full_parse(g, range, w) ==
    Unwrap(document_node(IF range = Range(0, TextLen(g)) THEN w
                         ELSE StrReplaceRange(to_org(g), range.start, range.end, w)))

\* the text replace_headline hands to headline_node for the headline at r
HeadlineText(text, r, range, w) ==
    IF r = range THEN w
    ELSE StrReplaceRange(text, range.start - r.start, range.end - r.start, w)

\* Org::replace_headline: the headline at path reparsed alone
replace_headline(g, path, range, w) ==
    Unwrap(headline_node(HeadlineText(TextOf(NodeAt(g, path)), RangeOf(g, path), range, w)))

\* NewGreen as it would be if the reparsed headline were taken as the new root
NewGreenUnspliced(g, rs, path, res) ==
    CASE res.panic -> g
      [] OTHER -> res.node

\* the new green root: the document of full_parse, or the root with the
\* reparsed headline spliced in; a panic leaves the root as it was
NewGreen(g, rs, path, res) ==
    CASE res.panic -> g
      [] path = "headline" -> replace_with(g, rs.path, res.node)
      [] OTHER -> res.node

\* the record of a call of replace_range
Call(range, w, rs, ws, path, res) ==
    [op |-> "replace_range", range |-> range, with |-> w,
     rshape |-> rs.shape, rlevel |-> rs.level,
     wshape |-> ws.shape, wlevel |-> ws.level,
     path |-> path, panic |-> res.panic]

\* Org::replace_range: the new root and the record of the call
replace_range(g, range, w) ==
    LET Done(rs, ws, path, res) ==
            [green |-> NewGreen(g, rs, path, res), call |-> Call(range, w, rs, ws, path, res)]
        Path(rs, ws, path) ==
            Done(rs, ws, path,
                 CASE path = "headline" -> replace_headline(g, rs.path, range, w)
                   [] path = "full" -> full_parse(g, range, w)
                   [] OTHER -> [panic |-> TRUE, node |-> g])
        Shapes(rs, ws) ==
            Path(rs, ws, IF rs.shape = "Panic" THEN "none" ELSE Decide(g, rs, ws, range, w))
    IN Shapes(RangeShape(g, range), ReplaceWithShape(w))

(***************************************************************************)
(* Documents and edits of the model.                                       *)
(***************************************************************************)
\* the documents of the examples in src/src/replace.rs and src/src/org.rs
HelloDoc == <<"*", "*", " ", "h", "e", "l", "l", "o">>

ShrinkDoc == <<"*", " ", "a", "\n", "*", "*", " ", "b">>

NestedDoc == <<"*", " ", "A", "\n", "*", "*", " ", "B", "\n", "*", "*", "*", " ", "C">>

\* a headline with a one-line section, whose section is replaced by a headline
SiblingDoc == <<"*", " ", "a", "\n", "b">>

\* two headlines, where the title and the line end of the first are replaced
JoinDoc == <<"*", " ", "a", "\n", "*", " ", "b">>

SeedDocs == {HelloDoc, ShrinkDoc, NestedDoc, SiblingDoc, JoinDoc}

FiveStars == <<"*", "*", "*", "*", "*">>

\* the edits of those examples: <<document text, range, replacement>>
SeedEdits ==
    {<<HelloDoc, Range(0, 2), FiveStars>>,
     <<ShrinkDoc, Range(4, 8), <<"*", " ", "c">> >>,
     <<SiblingDoc, Range(4, 5), <<"*", " ", "c">> >>,
     <<JoinDoc, Range(2, 4), <<"x", "\n", "*", "*", " ", "c">> >>,
     <<SiblingDoc, Range(4, 5), <<"\n", "*", " ", "c">> >>,
     <<NestedDoc, Range(4, 14), <<"*", "*", " ", "D">> >>}

Docs == Texts(MaxLen) \cup SeedDocs

NoCall == [op |-> "parse", range |-> Range(0, 0), with |-> <<>>,
           rshape |-> "Other", rlevel |-> 0, wshape |-> "Other", wlevel |-> 0,
           path |-> "none", panic |-> FALSE]

\* the state of a traversal: the visitor, the frames of the calls of
\* Traverser::element that are open (the node's path and the next child), the
\* events delivered so far, and what the visitor has made of them
NoTraversal ==
    [visitor |-> "none", stack |-> <<>>, events |-> <<>>, output |-> <<>>,
     ident |-> 0, done |-> FALSE]

\* ParseConfig::parse / Org::parse
Parse(text) == Unwrap(document_node(text))

Init ==
    \E text \in Docs : \E org \in {Parse(text)} :
        /\ green = org.node
        /\ call = [NoCall EXCEPT !.panic = org.panic]
        /\ old = text
        /\ edits = 0
        /\ fn = "none"
        /\ arg = <<>>
        /\ ret = <<>>
        /\ trav = NoTraversal

\* the edits the model makes on a document of text text: every valid range with
\* every replacement that keeps the text within MaxLen, and the example edits
Edits(text) ==
    {e \in (0..Len(text)) \X (0..Len(text)) \X Texts(MaxLen) :
        /\ e[1] <= e[2]
        /\ Len(text) - (e[2] - e[1]) + Len(e[3]) <= MaxLen}
    \cup {<<e[2].start, e[2].end, e[3]>> : e \in {d \in SeedEdits : d[1] = text}}

\* one call of replace_range with a valid range, made by a caller that holds
\* no record of an earlier call
ReplaceRange ==
    /\ ~call.panic
    /\ call.op \in {"parse", "idle"}
    /\ edits < MaxEdits
    /\ \E e \in Edits(to_org(green)) :
       \E res \in {replace_range(green, Range(e[1], e[2]), e[3])} :
            /\ green' = res.green
            /\ call' = res.call
    /\ old' = to_org(green)
    /\ edits' = edits + 1
    /\ UNCHANGED <<trav, fn, arg, ret>>

\* the caller drops its record of the call and goes on with the edited document
Settle ==
    /\ ~call.panic
    /\ call.op = "replace_range"
    /\ call' = [NoCall EXCEPT !.op = "idle"]
    /\ old' = to_org(green)
    /\ UNCHANGED <<trav, green, edits, fn, arg, ret>>

Next == ReplaceRange \/ Settle

Spec == Init /\ [][Next]_vars


(***************************************************************************)
(* The queries as operations on a parsed document.                         *)
(***************************************************************************)
\* the node kinds the queries are asked for (Document, Headline, Section, Paragraph)
Kinds == {"DOCUMENT", "HEADLINE", "SECTION", "PARAGRAPH"}

QueryDocs == Texts(MaxLen + 2) \cup SeedDocs

InitQuery ==
    \E text \in QueryDocs : \E org \in {Parse(text)} :
        /\ green = org.node
        /\ call = [NoCall EXCEPT !.panic = org.panic]
        /\ old = text
        /\ edits = 0
        /\ fn = "none"
        /\ arg = <<>>
        /\ ret = <<>>
        /\ trav = NoTraversal

\* one call of first_node::<kind>
FirstNode ==
    /\ fn = "none"
    /\ \E kind \in Kinds :
        /\ arg' = [kind |-> kind, offset |-> 0]
        /\ ret' = first_node(green, kind)
    /\ fn' = "first_node"
    /\ UNCHANGED <<trav, green, old, call, edits>>

\* one call of node_at_offset::<kind>(offset), also with offsets behind the end
NodeAtOffset ==
    /\ fn = "none"
    /\ \E kind \in Kinds : \E offset \in 0..(TextLen(green) + 1) :
        /\ arg' = [kind |-> kind, offset |-> offset]
        /\ ret' = node_at_offset(green, kind, offset)
    /\ fn' = "node_at_offset"
    /\ UNCHANGED <<trav, green, old, call, edits>>

NextQuery == FirstNode \/ NodeAtOffset

SpecQuery == InitQuery /\ [][NextQuery]_vars

(***************************************************************************)
(* Document::title (src/src/ast/document.rs) over the keywords of the      *)
(* zeroth section.                                                         *)
(***************************************************************************)
\* the most keywords in the zeroth section
MaxKeywords == 3

Uppercase == <<"A", "B", "C", "D", "E", "F", "G", "H", "I", "J", "K", "L", "M",
               "N", "O", "P", "Q", "R", "S", "T", "U", "V", "W", "X", "Y", "Z">>

Lowercase == <<"a", "b", "c", "d", "e", "f", "g", "h", "i", "j", "k", "l", "m",
               "n", "o", "p", "q", "r", "s", "t", "u", "v", "w", "x", "y", "z">>

\* u8::to_ascii_lowercase
to_ascii_lowercase(c) ==
    IF \E i \in 1..Len(Uppercase) : Uppercase[i] = c
    THEN Lowercase[CHOOSE i \in 1..Len(Uppercase) : Uppercase[i] = c]
    ELSE c

\* str::eq_ignore_ascii_case
eq_ignore_ascii_case(a, b) ==
    /\ Len(a) = Len(b)
    /\ \A i \in 1..Len(a) : to_ascii_lowercase(a[i]) = to_ascii_lowercase(b[i])

\* the characters str::trim removes
Whitespace == {" ", "\t", "\n", "\r"}

\* str::trim
trim(s) == SubSeq(s, LeadIn(s, Whitespace) + 1, Len(s) - TrailIn(s, Whitespace))

\* the TEXT tokens among the children of a node, in order
TextTokens(n) == SelectSeq(n.children, LAMBDA c : IsToken(c) /\ c.kind = "TEXT")

\* Keyword::key: the first TEXT token
key(kw) == TextTokens(kw)[1].text

\* Keyword::value: the second TEXT token
value(kw) == TextTokens(kw)[2].text

\* a KEYWORD node as the parser builds it for the line `#+key:value`
keyword_node(k, v) ==
    Node("KEYWORD", <<Token("HASH_PLUS", <<"#", "+">>), Token("TEXT", k),
                      Token("COLON", <<":">>), Token("TEXT", v),
                      Token("NEW_LINE", <<"\n">>)>>)

\* the child nodes of kind among the children of n
ChildNodes(n, kind) == SelectSeq(n.children, LAMBDA c : ~IsToken(c) /\ c.kind = kind)

\* Document::keywords: the KEYWORD children of the document's own section
keywords(doc) ==
    IF ChildNodes(doc, "SECTION") = <<>> THEN <<>>
    ELSE ChildNodes(ChildNodes(doc, "SECTION")[1], "KEYWORD")

\* the closure folded by Document::title: acc is None (<<>>) or Some(s) (<<s>>)
title_step(acc, cur) ==
    LET Push(s) == <<(IF s # <<>> THEN Append(s, " ") ELSE s) \o trim(value(cur))>>
    IN Push(IF acc = <<>> THEN <<>> ELSE acc[1])

RECURSIVE title_fold(_, _)
title_fold(kws, acc) ==
    IF kws = <<>> THEN acc ELSE title_fold(Tail(kws), title_step(acc, Head(kws)))

TITLE == <<"T", "I", "T", "L", "E">>

\* Document::title
title(doc) ==
    title_fold(SelectSeq(keywords(doc), LAMBDA kw : eq_ignore_ascii_case(key(kw), TITLE)),
               <<>>)

\* the keys and values of the keyword lines the documents are built from
KeywordKeys == {TITLE, <<"T", "i", "t", "l", "e">>, <<"D", "A", "T", "E">>}

KeywordValues == {<<>>, <<" ", "a">>, <<" ", "b", " ">>}

KeywordLists == UNION {[1..n -> KeywordKeys \X KeywordValues] : n \in 0..MaxKeywords}

\* a document with the keywords kws in its zeroth section and, when below, a
\* headline whose section holds a #+TITLE of its own
TitleDoc(kws, below) ==
    Node("DOCUMENT",
         (IF kws = <<>> THEN <<>>
          ELSE <<Node("SECTION", [i \in 1..Len(kws) |-> keyword_node(kws[i][1], kws[i][2])])>>)
         \o (IF below
             THEN <<Node("HEADLINE",
                         <<Token("HEADLINE_STARS", <<"*">>), Token("WHITESPACE", <<" ">>),
                           Node("HEADLINE_TITLE", <<Token("TEXT", <<"h">>)>>),
                           Token("NEW_LINE", <<"\n">>),
                           Node("SECTION", <<keyword_node(TITLE, <<" ", "c">>)>>)>>)>>
             ELSE <<>>))

InitTitle ==
    \E kws \in KeywordLists : \E below \in BOOLEAN :
        /\ green = TitleDoc(kws, below)
        /\ old = TextOf(TitleDoc(kws, below))
        /\ call = NoCall
        /\ edits = 0
        /\ fn = "none"
        /\ arg = <<>>
        /\ ret = <<>>
        /\ trav = NoTraversal

\* one call of Document::title
Title ==
    /\ fn = "none"
    /\ fn' = "title"
    /\ ret' = title(green)
    /\ UNCHANGED <<trav, green, old, call, edits, arg>>

NextTitle == Title

SpecTitle == InitTitle /\ [][NextTitle]_vars

(***************************************************************************)
(* The property drawer: its parser (src/src/syntax/drawer.rs) and          *)
(* PropertyDrawer::iter / get (src/src/ast/drawer.rs).                     *)
(***************************************************************************)
\* the most node properties in one drawer
MaxProps == 3

\* the characters space0 and space1 take
Blank == {" ", "\t"}

\* colon_token
ColonAt(s, i) == i <= Len(s) /\ s[i] = ":"

\* eol_or_eof at the start of s: the number of characters of the line break,
\* -1 when s starts with neither a line break nor the end of input
eol_or_eof(s) ==
    IF s = <<>> THEN 0
    ELSE IF Len(s) >= 2 /\ s[1] = "\r" /\ s[2] = "\n" THEN 2
    ELSE IF s[1] \in Eol THEN 1
    ELSE -1

\* the characters of a drawer's name
NameChars == {Uppercase[i] : i \in 1..Len(Uppercase)}
             \cup {Lowercase[i] : i \in 1..Len(Lowercase)} \cup {"-", "_"}

\* the shared shape of drawer_begin_node and drawer_end_node: spaces, a colon,
\* a name of nameLen characters, a colon, spaces and the end of the line
DrawerLine(s, kind, ws, nameLen) ==
    LET Close(after) ==
            LET End(ws2) ==
                    LET Eat(nl) ==
                            IF nl < 0 THEN Failed(s)
                            ELSE Parsed(kind,
                                        OptToken("WHITESPACE", Take(s, ws))
                                        \o <<Token("COLON", <<":">>),
                                             Token("TEXT", SubSeq(s, ws + 2, ws + 1 + nameLen)),
                                             Token("COLON", <<":">>)>>
                                        \o OptToken("WHITESPACE", Take(after, ws2))
                                        \o OptToken("NEW_LINE", SubSeq(after, ws2 + 1, ws2 + nl)),
                                        Drop(after, ws2 + nl))
                    IN Eat(eol_or_eof(Drop(after, ws2)))
            IN End(LeadIn(after, Blank))
    IN IF ColonAt(s, ws + 1) /\ nameLen >= 1 /\ ColonAt(s, ws + 2 + nameLen)
       THEN Close(Drop(s, ws + 2 + nameLen))
       ELSE Failed(s)

\* drawer_begin_node
drawer_begin_node(s) ==
    LET At(ws) == DrawerLine(s, "DRAWER_BEGIN", ws, LeadIn(Drop(s, ws + 1), NameChars))
    IN At(LeadIn(s, Blank))

\* the name drawer_begin_node returns next to its node
DrawerName(begin) == TextTokens(begin)[1].text

\* drawer_end_node: the name is END in any case
drawer_end_node(s) ==
    LET At(ws) ==
            IF /\ Len(s) >= ws + 4
               /\ eq_ignore_ascii_case(SubSeq(s, ws + 2, ws + 4), <<"E", "N", "D">>)
            THEN DrawerLine(s, "DRAWER_END", ws, Len(<<"E", "N", "D">>))
            ELSE Failed(s)
    IN At(LeadIn(s, Blank))

\* the children node_property_node pushes for the name of a property
NameTokens(name) ==
    IF name # <<>> /\ name[Len(name)] = "+"
    THEN <<Token("TEXT", Take(name, Len(name) - 1)), Token("PLUS", <<"+">>)>>
    ELSE <<Token("TEXT", name)>>

\* node_property_node as it would be with space0 behind the key's colon
node_property_node_space0(s) ==
    LET At(ws1) ==
            LET Word(n) ==
                    LET Value(after) ==
                            LET Line(ws2, line) ==
                                    Parsed("NODE_PROPERTY",
                                           OptToken("WHITESPACE", Take(s, ws1))
                                           \o <<Token("COLON", <<":">>)>>
                                           \o NameTokens(SubSeq(s, ws1 + 2, ws1 + n))
                                           \o <<Token("COLON", <<":">>)>>
                                           \o OptToken("WHITESPACE", Take(after, ws2))
                                           \o <<Token("TEXT", line.content)>>
                                           \o OptToken("WHITESPACE", line.ws)
                                           \o OptToken("NEW_LINE", line.nl),
                                           line.rest)
                            IN IF FALSE THEN Failed(s)
                               ELSE Line(LeadIn(after, Blank),
                                         trim_line_end(Drop(after, LeadIn(after, Blank))))
                    IN IF n >= 1 /\ s[ws1 + 1 + n] = ":" THEN Value(Drop(s, ws1 + 1 + n))
                       ELSE Failed(s)
            IN IF ColonAt(s, ws1 + 1)
               THEN Word(LeadOut(Drop(s, ws1 + 1), Blank \cup Eol))
               ELSE Failed(s)
    IN At(LeadIn(s, Blank))

\* node_property_node
node_property_node(s) ==
    LET At(ws1) ==
            LET Word(n) ==
                    LET Value(after) ==
                            LET Line(ws2, line) ==
                                    Parsed("NODE_PROPERTY",
                                           OptToken("WHITESPACE", Take(s, ws1))
                                           \o <<Token("COLON", <<":">>)>>
                                           \o NameTokens(SubSeq(s, ws1 + 2, ws1 + n))
                                           \o <<Token("COLON", <<":">>)>>
                                           \o OptToken("WHITESPACE", Take(after, ws2))
                                           \o <<Token("TEXT", line.content)>>
                                           \o OptToken("WHITESPACE", line.ws)
                                           \o OptToken("NEW_LINE", line.nl),
                                           line.rest)
                            IN IF LeadIn(after, Blank) = 0 THEN Failed(s)
                               ELSE Line(LeadIn(after, Blank),
                                         trim_line_end(Drop(after, LeadIn(after, Blank))))
                    IN IF n >= 1 /\ s[ws1 + 1 + n] = ":" THEN Value(Drop(s, ws1 + 1 + n))
                       ELSE Failed(s)
            IN IF ColonAt(s, ws1 + 1)
               THEN Word(LeadOut(Drop(s, ws1 + 1), Blank \cup Eol))
               ELSE Failed(s)
    IN At(LeadIn(s, Blank))

RECURSIVE node_properties(_)
\* iterator(input, node_property_node): the properties up to the first line
\* that is none, and the input from that line on
node_properties(s) ==
    LET First(p) ==
            IF ~p.ok THEN [nodes |-> <<>>, rest |-> s]
            ELSE LET More(m) == [nodes |-> p.nodes \o m.nodes, rest |-> m.rest]
                 IN More(node_properties(p.rest))
    IN First(node_property_node(s))

\* property_drawer_node_base
property_drawer_node_base(s) ==
    LET Begin(begin) ==
            LET Props(props) ==
                    LET End(end) ==
                            LET Blanks(post) ==
                                    Parsed("PROPERTY_DRAWER",
                                           begin.nodes \o props.nodes \o end.nodes
                                           \o post.tokens,
                                           post.rest)
                            IN IF ~end.ok THEN Failed(s) ELSE Blanks(blank_lines(end.rest))
                    IN End(drawer_end_node(props.rest))
            IN IF ~begin.ok THEN Failed(s)
               ELSE IF ~eq_ignore_ascii_case(DrawerName(begin.nodes[1]),
                                             <<"p", "r", "o", "p", "e", "r", "t", "i", "e", "s">>)
               THEN Failed(s)
               ELSE Props(node_properties(begin.rest))
    IN Begin(drawer_begin_node(s))

\* PropertyDrawer::iter: key and value of every property with two TEXT tokens;
\* at is the position of the property among the children of the drawer
iter(drawer) ==
    LET Pairs(at) ==
            [i \in 1..Len(at) |->
                [key |-> TextTokens(drawer.children[at[i]])[1],
                 value |-> TextTokens(drawer.children[at[i]])[2],
                 at |-> at[i]]]
        RECURSIVE Positions(_)
        Positions(i) ==
            IF i > Len(drawer.children) THEN <<>>
            ELSE (IF /\ ~IsToken(drawer.children[i])
                     /\ drawer.children[i].kind = "NODE_PROPERTY"
                     /\ Len(TextTokens(drawer.children[i])) >= 2
                  THEN <<i>> ELSE <<>>) \o Positions(i + 1)
    IN Pairs(Positions(1))

\* PropertyDrawer::get as it would be if a later property of the key won
get_last(drawer, k) ==
    LET Hits(ps) == SelectSeq(ps, LAMBDA p : p.key.text = k)
        Last(hits) == IF hits = <<>> THEN <<>>
                      ELSE <<[token |-> hits[Len(hits)].value, at |-> hits[Len(hits)].at]>>
    IN Last(Hits(iter(drawer)))

\* PropertyDrawer::get: the value of the first pair whose key is k
get(drawer, k) ==
    LET Hits(ps) == SelectSeq(ps, LAMBDA p : p.key.text = k)
        First(hits) == IF hits = <<>> THEN <<>>
                       ELSE <<[token |-> hits[1].value, at |-> hits[1].at]>>
    IN First(Hits(iter(drawer)))

\* HashMap::insert as it would be if the entry of a key already present were kept
hash_insert_keep(m, p) ==
    [x \in DOMAIN m \cup {p.key.text} |->
        IF x \in DOMAIN m THEN m[x] ELSE [token |-> p.value, at |-> p.at]]

\* HashMap::insert of the pair p: Token hashes and compares by its text, so the
\* map is keyed by the key's text, and a later value takes the place of an earlier
hash_insert(m, p) ==
    [x \in DOMAIN m \cup {p.key.text} |->
        IF x = p.key.text THEN [token |-> p.value, at |-> p.at] ELSE m[x]]

RECURSIVE hash_collect(_, _)
\* FromIterator for HashMap: the pairs inserted in order
hash_collect(ps, m) ==
    IF ps = <<>> THEN m ELSE hash_collect(Tail(ps), hash_insert(m, Head(ps)))

\* PropertyDrawer::to_hash_map
to_hash_map(drawer) == hash_collect(iter(drawer), <<>>)

\* IndexMap::insert of the pair p: a key already present keeps its place and
\* takes the new value, a new key goes to the end
index_insert(m, p) ==
    IF \E i \in 1..Len(m) : m[i].key = p.key.text
    THEN [i \in 1..Len(m) |->
             IF m[i].key = p.key.text
             THEN [key |-> m[i].key, token |-> p.value, at |-> p.at]
             ELSE m[i]]
    ELSE Append(m, [key |-> p.key.text, token |-> p.value, at |-> p.at])

RECURSIVE index_collect(_, _)
\* FromIterator for IndexMap: the pairs inserted in order
index_collect(ps, m) ==
    IF ps = <<>> THEN m ELSE index_collect(Tail(ps), index_insert(m, Head(ps)))

\* PropertyDrawer::to_index_map
to_index_map(drawer) == index_collect(iter(drawer), <<>>)

ID == <<"I", "D">>

\* the property lines the drawers are built from
PropLines ==
    {<<":">> \o ID \o <<":", " ", "X", "\n">>,
     <<":">> \o ID \o <<":", " ", "Y", "\n">>,
     <<":">> \o ID \o <<"+", ":", " ", "Z", "\n">>,
     <<":">> \o ID \o <<":", " ", "\n">>,
     <<":", "i", "d", ":", " ", "X", " ", "\n">>,
     <<" ", ":", "A", ":", " ", " ", "X", "\n">>}

\* the keys get is asked for
PropKeys == {ID, <<"i", "d">>, <<"A">>, <<"B">>, <<"I", "D", "+">>}

RECURSIVE Concat(_)
Concat(ss) == IF ss = <<>> THEN <<>> ELSE Head(ss) \o Concat(Tail(ss))

\* the text of a property drawer with the given property lines
DrawerText(lines) ==
    <<":", "P", "R", "O", "P", "E", "R", "T", "I", "E", "S", ":", "\n">>
    \o Concat(lines) \o <<":", "E", "N", "D", ":">>

DrawerTexts == {DrawerText(ls) : ls \in UNION {[1..n -> PropLines] : n \in 0..MaxProps}}

\* the drawer of `:ID: X` followed by `:ID: Y`
DuplicateDrawer ==
    DrawerText(<< <<":">> \o ID \o <<":", " ", "X", "\n">>,
                  <<":">> \o ID \o <<":", " ", "Y", "\n">> >>)

\* a document that is one property drawer
InitDrawer ==
    \E text \in DrawerTexts : \E parsed \in {property_drawer_node_base(text)} :
        /\ parsed.ok
        /\ green = Node("DOCUMENT", parsed.nodes)
        /\ old = text
        /\ call = NoCall
        /\ edits = 0
        /\ fn = "none"
        /\ arg = <<>>
        /\ ret = <<>>
        /\ trav = NoTraversal

\* one call of get on the document's drawer
Get ==
    /\ fn = "none"
    /\ first_node(green, "PROPERTY_DRAWER") # <<>>
    /\ \E k \in PropKeys :
        /\ arg' = [key |-> k]
        /\ ret' = get(NodeAt(green, first_node(green, "PROPERTY_DRAWER")[1]), k)
    /\ fn' = "get"
    /\ UNCHANGED <<trav, green, old, call, edits>>

\* one call of to_hash_map on the document's drawer
ToHashMap ==
    /\ fn = "none"
    /\ first_node(green, "PROPERTY_DRAWER") # <<>>
    /\ fn' = "to_hash_map"
    /\ ret' = to_hash_map(NodeAt(green, first_node(green, "PROPERTY_DRAWER")[1]))
    /\ UNCHANGED <<trav, green, old, call, edits, arg>>

\* one call of to_index_map on the document's drawer
ToIndexMap ==
    /\ fn = "none"
    /\ first_node(green, "PROPERTY_DRAWER") # <<>>
    /\ fn' = "to_index_map"
    /\ ret' = to_index_map(NodeAt(green, first_node(green, "PROPERTY_DRAWER")[1]))
    /\ UNCHANGED <<trav, green, old, call, edits, arg>>

NextDrawer == Get \/ ToHashMap \/ ToIndexMap

SpecDrawer == InitDrawer /\ [][NextDrawer]_vars

(***************************************************************************)
(* Link::is_image and Link::has_description (src/src/ast/link.rs).         *)
(***************************************************************************)
\* the longest stem in front of the extension of a link's path
MaxStem == 2

\* IMAGE_SUFFIX
IMAGE_SUFFIX ==
    <<
      <<".", "p", "n", "g">>, <<".", "j", "p", "e", "g">>,
      <<".", "j", "p", "g">>, <<".", "g", "i", "f">>,
      <<".", "t", "i", "f", "f">>, <<".", "t", "i", "f">>,
      <<".", "x", "b", "m">>, <<".", "x", "p", "m">>, <<".", "p", "b", "m">>,
      <<".", "p", "g", "m">>, <<".", "p", "p", "m">>,
      <<".", "w", "e", "b", "p">>, <<".", "a", "v", "i", "f">>,
      <<".", "s", "v", "g">> >>

\* str::ends_with
ends_with(s, e) == Len(e) <= Len(s) /\ SubSeq(s, Len(s) - Len(e) + 1, Len(s)) = e

\* a LINK node as the parser builds it for `[[path]]` (desc = <<>>) or
\* `[[path][description]]` (desc = <<description>>)
link_node(path, desc) ==
    Node("LINK",
         <<Token("L_BRACKET2", <<"[", "[">>), Token("LINK_PATH", path)>>
         \o (IF desc = <<>> THEN <<>>
             ELSE <<Token("R_BRACKET", <<"]">>), Token("L_BRACKET", <<"[">>),
                    Token("TEXT", desc[1])>>)
         \o <<Token("R_BRACKET2", <<"]", "]">>)>>)

\* Link::path: the LINK_PATH token
link_path(link) ==
    SelectSeq(link.children, LAMBDA c : IsToken(c) /\ c.kind = "LINK_PATH")[1].text

\* Link::has_description: some child is an L_BRACKET
has_description(link) ==
    \E i \in 1..Len(link.children) : link.children[i].kind = "L_BRACKET"

\* Link::is_image as it would be without the test for a description
is_image_any(link) ==
    \E i \in 1..Len(IMAGE_SUFFIX) : ends_with(link_path(link), IMAGE_SUFFIX[i])

\* Link::is_image
is_image(link) ==
    /\ \E i \in 1..Len(IMAGE_SUFFIX) : ends_with(link_path(link), IMAGE_SUFFIX[i])
    /\ ~has_description(link)

\* the paths of the links: a stem of dots and letters and an extension
LinkStems == UNION {[1..n -> {"a", "."}] : n \in 0..MaxStem}

LinkExtensions ==
    {IMAGE_SUFFIX[i] : i \in 1..Len(IMAGE_SUFFIX)}
    \cup {<<>>,
          <<".", "P", "N", "G">>, <<".", "t", "x", "t">>, <<"p", "n", "g">>,
          <<".", "p", "n">>, <<".", "s", "v", "g", "z">>,
          <<".", "j", "p", "g", ".", "b", "a", "k">>}

LinkPaths == {stem \o ext : stem \in LinkStems, ext \in LinkExtensions}

\* no description, or one of these
LinkDescriptions == {<<>>, << <<"d">> >>, << <<"a", ".", "p", "n", "g">> >>}

\* a document whose one paragraph is the link; arg keeps the link as written
InitLink ==
    \E p \in LinkPaths : \E d \in LinkDescriptions :
        /\ green = Node("DOCUMENT",
                        <<Node("SECTION", <<Node("PARAGRAPH", <<link_node(p, d)>>)>>)>>)
        /\ old = TextOf(link_node(p, d))
        /\ call = NoCall
        /\ edits = 0
        /\ fn = "none"
        /\ arg = [path |-> p, description |-> d]
        /\ ret = <<>>
        /\ trav = NoTraversal

\* one call of is_image on the document's link
IsImage ==
    /\ fn = "none"
    /\ first_node(green, "LINK") # <<>>
    /\ fn' = "is_image"
    /\ ret' = is_image(NodeAt(green, first_node(green, "LINK")[1]))
    /\ UNCHANGED <<trav, green, old, call, edits, arg>>

\* one call of has_description on the document's link
HasDescription ==
    /\ fn = "none"
    /\ first_node(green, "LINK") # <<>>
    /\ fn' = "has_description"
    /\ ret' = has_description(NodeAt(green, first_node(green, "LINK")[1]))
    /\ UNCHANGED <<trav, green, old, call, edits, arg>>

NextLink == IsImage \/ HasDescription

SpecLink == InitLink /\ [][NextLink]_vars

(***************************************************************************)
(* The traversal (Org::traverse, src/src/org.rs) with its visitors: any    *)
(* visitor, HtmlExport (src/src/export/html.rs) as far as links go, and    *)
(* the handler of the wasm traverse (src/wasm/src/lib.rs).                 *)
(***************************************************************************)
\* the most links in the paragraph of a link document
MaxLinks == 2

\* the kinds that are containers: Traverser::element delivers Enter and Leave
\* for them and walks their children; nodes of other kinds are passed over
Containers == {"DOCUMENT", "SECTION", "PARAGRAPH", "HEADLINE", "LINK"}

Frame(p, next) == [path |-> p, next |-> next]

TravEvent(type, p, control) == [type |-> type, path |-> p, control |-> control]

\* the links of the link documents: <<path, description>>
TraverseLinks ==
    {<<<<"a">>, <<>>>>, <<<<"a", ".", "p", "n", "g">>, <<>>>>,
     <<<<"a">>, << <<"d">> >>>>, <<<<"a", ".", "p", "n", "g">>, << <<"d">> >>>>}

\* a document of one paragraph: a text and the links ls, each followed by a text
LinkDoc(ls) ==
    Node("DOCUMENT",
         <<Node("SECTION",
                <<Node("PARAGRAPH",
                       <<Token("TEXT", <<"t">>)>>
                       \o Concat([i \in 1..Len(ls) |->
                                     <<link_node(ls[i][1], ls[i][2]),
                                       Token("TEXT", <<" ">>)>>]))>>)>>)

LinkDocs == {LinkDoc(ls) : ls \in UNION {[1..n -> TraverseLinks] : n \in 1..MaxLinks}}

IsLinkDoc(g) == first_node(g, "LINK") # <<>>

\* ctx.skip() / ctx.stop(): what a visitor may call while it handles an event;
\* skip has a meaning for Enter only
Controls(type) == IF type = "Enter" THEN {"continue", "skip", "stop"}
                  ELSE {"continue", "stop"}

\* HtmlExport::event as it would be if the link without description were not skipped
HtmlEventNoSkip(type, node) ==
    CASE type = "Enter" /\ node.kind = "LINK" ->
             IF is_image(node) THEN [out |-> <<"<img>">>, control |-> "skip"]
             ELSE IF ~has_description(node)
             THEN [out |-> <<"<a>", "path", "</a>">>, control |-> "continue"]
             ELSE [out |-> <<"<a>">>, control |-> "continue"]
      [] type = "Leave" /\ node.kind = "LINK" ->
             [out |-> <<"</a>">>, control |-> "continue"]
      [] type = "Text" -> [out |-> <<"text">>, control |-> "continue"]
      [] OTHER -> [out |-> <<>>, control |-> "continue"]

\* HtmlExport::event for the events of a link document: the pieces pushed to
\* the output and the control called
HtmlEvent(type, node) ==
    CASE type = "Enter" /\ node.kind = "DOCUMENT" ->
             [out |-> <<"<main>">>, control |-> "continue"]
      [] type = "Leave" /\ node.kind = "DOCUMENT" ->
             [out |-> <<"</main>">>, control |-> "continue"]
      [] type = "Enter" /\ node.kind = "SECTION" ->
             [out |-> <<"<section>">>, control |-> "continue"]
      [] type = "Leave" /\ node.kind = "SECTION" ->
             [out |-> <<"</section>">>, control |-> "continue"]
      [] type = "Enter" /\ node.kind = "PARAGRAPH" ->
             [out |-> <<"<p>">>, control |-> "continue"]
      [] type = "Leave" /\ node.kind = "PARAGRAPH" ->
             [out |-> <<"</p>">>, control |-> "continue"]
      [] type = "Enter" /\ node.kind = "LINK" ->
             IF is_image(node) THEN [out |-> <<"<img>">>, control |-> "skip"]
             ELSE IF ~has_description(node)
             THEN [out |-> <<"<a>", "path", "</a>">>, control |-> "skip"]
             ELSE [out |-> <<"<a>">>, control |-> "continue"]
      [] type = "Leave" /\ node.kind = "LINK" ->
             [out |-> <<"</a>">>, control |-> "continue"]
      [] type = "Text" -> [out |-> <<"text">>, control |-> "continue"]
      [] OTHER -> [out |-> <<>>, control |-> "continue"]

\* the handler of the wasm traverse as it would be if a token event closed a level
WasmIdentTokens(type, ident) ==
    CASE type = "Enter" -> ident + 2
      [] OTHER -> ident - 2

\* the handler of the wasm traverse: a line per Enter and per token event,
\* the indentation two up after Enter and two down on Leave; never a control
WasmIdent(type, ident) ==
    CASE type = "Enter" -> ident + 2
      [] type = "Leave" -> ident - 2
      [] OTHER -> ident

\* Deliver as it would be if stop were not looked at
DeliverNoStop(type, p, control, stack) ==
    [trav EXCEPT
        !.events = Append(@, TravEvent(type, p, control)),
        !.stack = stack,
        !.done = (stack = <<>>)]

\* the visitor handles the event of type at path p and calls control; stack
\* is what Traverser::element goes on with when the traversal is not stopped
Deliver(type, p, control, stack) ==
    [trav EXCEPT
        !.events = Append(@, TravEvent(type, p, control)),
        !.output = IF trav.visitor = "html"
                   THEN @ \o HtmlEvent(type, NodeAt(green, p)).out ELSE @,
        !.ident = IF trav.visitor = "wasm" THEN WasmIdent(type, @) ELSE @,
        !.stack = IF control = "stop" THEN <<>> ELSE stack,
        !.done = (control = "stop" \/ stack = <<>>)]

\* the controls the visitor of the traversal may call on the event
VisitorControls(type, p) ==
    CASE trav.visitor = "any" -> Controls(type)
      [] trav.visitor = "html" -> {HtmlEvent(type, NodeAt(green, p)).control}
      [] OTHER -> {"continue"}

Top == trav.stack[Len(trav.stack)]

Pop == SubSeq(trav.stack, 1, Len(trav.stack) - 1)

\* the stack with the top frame moved on to its next child
Advance == [trav.stack EXCEPT ![Len(trav.stack)].next = @ + 1]

Traversing == fn = "traverse" /\ ~trav.done /\ trav.stack # <<>>

InitTraverse ==
    \E g \in {Parse(text).node : text \in Docs} \cup LinkDocs :
        /\ green = g
        /\ old = TextOf(g)
        /\ call = NoCall
        /\ edits = 0
        /\ fn = "none"
        /\ arg = <<>>
        /\ ret = <<>>
        /\ trav = NoTraversal

\* Org::traverse: element is called on the root with a fresh context
Traverse ==
    /\ fn = "none"
    /\ fn' = "traverse"
    /\ \E v \in (IF IsLinkDoc(green) THEN {"any", "html", "wasm"} ELSE {"any", "wasm"}) :
        trav' = [NoTraversal EXCEPT !.visitor = v, !.stack = <<Frame(<<>>, 0)>>]
    /\ UNCHANGED <<green, old, call, edits, arg, ret>>

\* element on a container: Enter is delivered; on skip the call returns, and
\* otherwise its children are walked
Enter ==
    /\ Traversing
    /\ Top.next = 0
    /\ NodeAt(green, Top.path).kind \in Containers
    /\ \E c \in VisitorControls("Enter", Top.path) :
        trav' = Deliver("Enter", Top.path, c, IF c = "skip" THEN Pop ELSE Advance)
    /\ UNCHANGED <<green, old, call, edits, fn, arg, ret>>

\* element on a node that is no container: nothing is delivered
PassOver ==
    /\ Traversing
    /\ Top.next = 0
    /\ NodeAt(green, Top.path).kind \notin Containers
    /\ trav' = [trav EXCEPT !.stack = Pop, !.done = (Pop = <<>>)]
    /\ UNCHANGED <<green, old, call, edits, fn, arg, ret>>

\* the walk reaches a child node: element is called on it
Descend ==
    /\ Traversing
    /\ Top.next \in 1..Len(NodeAt(green, Top.path).children)
    /\ ~IsToken(NodeAt(green, Append(Top.path, Top.next)))
    /\ trav' = [trav EXCEPT !.stack = Append(Advance, Frame(Append(Top.path, Top.next), 0))]
    /\ UNCHANGED <<green, old, call, edits, fn, arg, ret>>

\* the walk reaches a token: a TEXT token is delivered as Text, any other
\* token of the model is trivia and delivers nothing
TokenEvent ==
    /\ Traversing
    /\ Top.next \in 1..Len(NodeAt(green, Top.path).children)
    /\ IsToken(NodeAt(green, Append(Top.path, Top.next)))
    /\ IF NodeAt(green, Append(Top.path, Top.next)).kind = "TEXT"
       THEN \E c \in VisitorControls("Text", Append(Top.path, Top.next)) :
                trav' = Deliver("Text", Append(Top.path, Top.next), c, Advance)
       ELSE trav' = [trav EXCEPT !.stack = Advance]
    /\ UNCHANGED <<green, old, call, edits, fn, arg, ret>>

\* the children of a container are walked: Leave is delivered and the call returns
Leave ==
    /\ Traversing
    /\ Top.next > Len(NodeAt(green, Top.path).children)
    /\ \E c \in VisitorControls("Leave", Top.path) :
        trav' = Deliver("Leave", Top.path, c, Pop)
    /\ UNCHANGED <<green, old, call, edits, fn, arg, ret>>

NextTraverse == Traverse \/ Enter \/ PassOver \/ Descend \/ TokenEvent \/ Leave

SpecTraverse == InitTraverse /\ [][NextTraverse]_vars

(***************************************************************************)
(* HtmlEscape (src/src/export/html.rs).                                    *)
(***************************************************************************)
\* the longest escaped string
MaxEscape == 3

\* the bytes jetscii looks for
Sensitive == {"<", ">", "&", "'", "\""}

\* the match on the found byte as it would be without the arm for the apostrophe
EntityNoApos(c) ==
    CASE c = "<" -> <<"&", "l", "t", ";">>
      [] c = ">" -> <<"&", "g", "t", ";">>
      [] c = "&" -> <<"&", "a", "m", "p", ";">>
      [] c = "\"" -> <<"&", "q", "u", "o", "t", ";">>
      [] OTHER -> <<>>

\* the match on the found byte: what is written in its place
Entity(c) ==
    CASE c = "<" -> <<"&", "l", "t", ";">>
      [] c = ">" -> <<"&", "g", "t", ";">>
      [] c = "&" -> <<"&", "a", "m", "p", ";">>
      [] c = "'" -> <<"&", "a", "p", "o", "s", ";">>
      [] c = "\"" -> <<"&", "q", "u", "o", "t", ";">>
      [] OTHER -> <<>>

RECURSIVE escape_loop(_, _, _)
\* the while loop of fmt from position pos on, with out written so far: the
\* text up to the next sensitive byte is copied, the byte is replaced, and the
\* rest is copied when no sensitive byte is left
escape_loop(content, pos, out) ==
    LET Found(off) ==
            escape_loop(content, pos + off + 1,
                        out \o SubSeq(content, pos + 1, pos + off)
                            \o Entity(content[pos + off + 1]))
    IN IF \A i \in (pos + 1)..Len(content) : content[i] \notin Sensitive
       THEN out \o Drop(content, pos)
       ELSE Found(LeadOut(Drop(content, pos), Sensitive))

\* format!("{}", HtmlEscape(content))
HtmlEscape(content) == escape_loop(content, 0, <<>>)

EscapeTexts == UNION {[1..n -> Sensitive \cup {"a", ";"}] : n \in 0..MaxEscape}

InitEscape ==
    \E text \in EscapeTexts :
        /\ green = Node("DOCUMENT", <<>>)
        /\ old = text
        /\ call = NoCall
        /\ edits = 0
        /\ fn = "none"
        /\ arg = <<>>
        /\ ret = <<>>
        /\ trav = NoTraversal

\* one formatting of HtmlEscape(old)
Escape ==
    /\ fn = "none"
    /\ fn' = "escape"
    /\ ret' = HtmlEscape(old)
    /\ UNCHANGED <<trav, green, old, call, edits, arg>>

NextEscape == Escape

SpecEscape == InitEscape /\ [][NextEscape]_vars

(***************************************************************************)
(* Subscript and superscript (src/src/syntax/subscript_superscript.rs).    *)
(***************************************************************************)
\* the longest enumerated input of the subscript and superscript parsers
MaxScript == 4

\* char::is_alphanumeric on the characters used
Alphanumeric == {"a", "b", "c", "d", "l", "o", "1", "2", "3"}

\* the result of a template: the children built and the input left
Children(children, rest) == [ok |-> TRUE, nodes |-> children, rest |-> rest]

\* tag("*")
template0(input) ==
    IF input # <<>> /\ Head(input) = "*"
    THEN Children(<<Token("TEXT", <<"*">>)>>, Tail(input))
    ELSE Failed(input)

RECURSIVE balanced_loop(_, _, _)
\* the loop of balanced_brackets from index i on with pairs open: the index
\* of the closing brace of the first pair, or 0
balanced_loop(input, i, pairs) ==
    IF i > Len(input) THEN 0
    ELSE IF input[i] = "{" THEN balanced_loop(input, i + 1, pairs + 1)
    ELSE IF input[i] = "}" /\ pairs # 1 THEN balanced_loop(input, i + 1, pairs - 1)
    ELSE IF input[i] = "}" THEN i
    ELSE balanced_loop(input, i + 1, pairs)

\* input.take_split(i) at the closing brace, as the length of the contents,
\* or -1 for Err
balanced_brackets(input) ==
    LET At(i) == IF i = 0 THEN -1 ELSE i - 1
    IN At(balanced_loop(input, 1, 1))

\* the children that the objects parser builds of the contents: their text, not
\* parsed further here
standard_object_nodes(contents) ==
    IF contents = <<>> THEN <<>> ELSE <<Token("TEXT", contents)>>

\* l_curly_token, balanced_brackets, r_curly_token
template1(input) ==
    LET Close(rest, n) ==
            IF n < 0 THEN Failed(input)
            ELSE Children(<<Token("L_CURLY", <<"{">>)>>
                          \o standard_object_nodes(Take(rest, n))
                          \o <<Token("R_CURLY", <<"}">>)>>,
                          Drop(rest, n + 1))
        Open(rest) == Close(rest, balanced_brackets(rest))
    IN IF input # <<>> /\ Head(input) = "{" THEN Open(Tail(input))
       ELSE Failed(input)

\* an optional sign, then take_while1 of alphanumerics, `,`, `\` and `.`, which
\* must end with an alphanumeric
template2(input) ==
    LET Sign(n) == IF n = 1 THEN <<Token("TEXT", <<Head(input)>>)>> ELSE <<>>
        Contents(rest, n, k) ==
            IF k = 0 \/ rest[k] \notin Alphanumeric THEN Failed(input)
            ELSE Children(Sign(n) \o <<Token("TEXT", Take(rest, k))>>,
                          Drop(rest, k))
        After(n) ==
            Contents(Drop(input, n), n,
                     LeadIn(Drop(input, n), Alphanumeric \cup {",", "\\", "."}))
    IN After(IF input # <<>> /\ Head(input) \in {"+", "-"} THEN 1 ELSE 0)

\* alt((template0, template1, template2))
alt_templates(input) ==
    IF template0(input).ok THEN template0(input)
    ELSE IF template1(input).ok THEN template1(input)
    ELSE template2(input)

UseSubSuperscript == {"Nil", "Brace", "True"}

is_brace(c) == c = "Brace"

is_nil(c) == c = "Nil"

\* the templates tried after the marker as they would be without the test of
\* is_brace
script_rest_alt(input, c) == alt_templates(input)

\* the templates tried after the marker under the configuration c: template1
\* alone when braces are required
script_rest(input, c) ==
    IF is_brace(c) THEN template1(input) ELSE alt_templates(input)

\* the node of the given kind for marker followed by the templates
script_node(input, c, marker, mkind, kind) ==
    LET Built(r) ==
            IF r.ok
            THEN Parsed(kind, <<Token(mkind, <<marker>>)>> \o r.nodes, r.rest)
            ELSE Failed(input)
    IN IF input # <<>> /\ Head(input) = marker
       THEN Built(script_rest(Tail(input), c))
       ELSE Failed(input)

superscript_node(input, c) ==
    script_node(input, c, "^", "CARET", "SUPERSCRIPT")

subscript_node(input, c) ==
    script_node(input, c, "_", "UNDERSCORE", "SUBSCRIPT")

\* verify_pre on the text s before the marker
verify_pre(s, c) ==
    /\ ~is_nil(c)
    /\ s # <<>>
    /\ s[Len(s)] \notin {" ", "\t"}

\* the dispatch of the objects parser on `_`: the offsets in text at which a
\* subscript node is built
subscripts(text, c) ==
    {i \in 1..Len(text) :
        /\ text[i] = "_"
        /\ verify_pre(Take(text, i - 1), c)
        /\ subscript_node(Drop(text, i - 1), c).ok}

ScriptAlphabet == {"_", "^", "{", "}", "*", "+", "a", ","}

\* the inputs of the test of subscript_superscript.rs and of the scenario
ScriptSeeds ==
    { <<"_", "a", "b", "c">>, <<"_", "+", "1", "2", "3">>,
      <<"_", "{", "*", "b", "o", "\n", "l", "d", "*", "}">>,
      <<"a", "_", "b">>, <<"a", "_", "{", "b", "}">>,
      <<"a", "^", "{", "b", "}", "_", "b">> }

ScriptTexts ==
    UNION {[1..n -> ScriptAlphabet] : n \in 0..MaxScript} \cup ScriptSeeds

InitScript ==
    \E text \in ScriptTexts, c \in UseSubSuperscript :
        /\ green = Node("DOCUMENT", <<>>)
        /\ old = text
        /\ call = NoCall
        /\ edits = 0
        /\ fn = "none"
        /\ arg = [c |-> c]
        /\ ret = <<>>
        /\ trav = NoTraversal

SubscriptNode ==
    /\ fn = "none"
    /\ fn' = "subscript_node"
    /\ ret' = subscript_node(old, arg.c)
    /\ UNCHANGED <<trav, green, old, call, edits, arg>>

SuperscriptNode ==
    /\ fn = "none"
    /\ fn' = "superscript_node"
    /\ ret' = superscript_node(old, arg.c)
    /\ UNCHANGED <<trav, green, old, call, edits, arg>>

\* the objects of the text old: the offsets of its subscript nodes
Subscripts ==
    /\ fn = "none"
    /\ fn' = "subscripts"
    /\ ret' = subscripts(old, arg.c)
    /\ UNCHANGED <<trav, green, old, call, edits, arg>>

NextScript == SubscriptNode \/ SuperscriptNode \/ Subscripts

SpecScript == InitScript /\ [][NextScript]_vars

(***************************************************************************)
(* Affiliated keywords in front of a footnote definition                   *)
(* (src/src/syntax/fn_def.rs, src/src/config.rs).                          *)
(***************************************************************************)
\* the most keyword lines in front of the footnote definition
MaxAffiliated == 2

\* ParseConfig::default().affiliated_keywords
DefaultAffiliated ==
    { <<"C", "A", "P", "T", "I", "O", "N">>,
      <<"D", "A", "T", "A">>,
      <<"H", "E", "A", "D", "E", "R">>,
      <<"H", "E", "A", "D", "E", "R", "S">>,
      <<"L", "A", "B", "E", "L">>,
      <<"N", "A", "M", "E">>,
      <<"P", "L", "O", "T">>,
      <<"R", "E", "S", "N", "A", "M", "E">>,
      <<"R", "E", "S", "U", "L", "T">>,
      <<"R", "E", "S", "U", "L", "T", "S">>,
      <<"S", "O", "U", "R", "C", "E">>,
      <<"S", "R", "C", "N", "A", "M", "E">>,
      <<"T", "B", "L", "N", "A", "M", "E">> }

\* u8::to_ascii_uppercase
to_ascii_uppercase(c) ==
    IF \E i \in 1..Len(Lowercase) : Lowercase[i] = c
    THEN Uppercase[CHOOSE i \in 1..Len(Lowercase) : Lowercase[i] = c]
    ELSE c

\* str::to_ascii_uppercase
to_uppercase(s) == [i \in 1..Len(s) |-> to_ascii_uppercase(s[i])]

\* str::starts_with
starts_with(s, e) == Len(e) <= Len(s) /\ Take(s, Len(e)) = e

ATTR == <<"A", "T", "T", "R", "_">>

\* the test of the keyword's name as it would be with the configured names alone
is_affiliated_listed(kw, c) == to_uppercase(kw) \in c

\* the test of the keyword's name: an attribute name `ATTR_...`, as in the
\* snapshot of `#+ATTR_poi: 1` under the default configuration, or one of the
\* configured names c
is_affiliated(kw, c) == starts_with(kw, ATTR) \/ to_uppercase(kw) \in c

\* one line `#+NAME[OPT]: VALUE` at the start of input
affiliated_keyword_node(input, c) ==
    LET Line(kw, opt, l) ==
            Parsed("AFFILIATED_KEYWORD",
                   <<Token("HASH_PLUS", <<"#", "+">>), Token("TEXT", kw)>>
                   \o (IF opt = <<>> THEN <<>>
                       ELSE <<Token("L_BRACKET", <<"[">>)>>
                            \o OptToken("TEXT", opt[1])
                            \o <<Token("R_BRACKET", <<"]">>)>>)
                   \o <<Token("COLON", <<":">>)>>
                   \o OptToken("TEXT", l.content)
                   \o OptToken("WHITESPACE", l.ws)
                   \o OptToken("NEW_LINE", l.nl),
                   l.rest)
        Value(kw, opt, rest) ==
            IF rest # <<>> /\ Head(rest) = ":"
            THEN Line(kw, opt, trim_line_end(Tail(rest)))
            ELSE Failed(input)
        Optional(kw, rest, n) ==
            IF rest # <<>> /\ Head(rest) = "[" /\ n < Len(rest) - 1
            THEN Value(kw, <<SubSeq(rest, 2, n + 1)>>, Drop(rest, n + 2))
            ELSE Value(kw, <<>>, rest)
        Name(rest, n) ==
            IF n = 0 \/ ~is_affiliated(Take(rest, n), c) THEN Failed(input)
            ELSE Optional(Take(rest, n), Drop(rest, n),
                          LeadOut(Drop(rest, n + 1), {"]", "\n", "\r"}))
    IN IF starts_with(input, <<"#", "+">>)
       THEN Name(Drop(input, 2), LeadOut(Drop(input, 2), Whitespace \cup {":", "["}))
       ELSE Failed(input)

RECURSIVE affiliated_keyword_nodes(_, _)
\* the leading affiliated keyword lines of input, possibly none
affiliated_keyword_nodes(input, c) ==
    LET More(r, more) == [nodes |-> r.nodes \o more.nodes, rest |-> more.rest]
        First(r) ==
            IF r.ok THEN More(r, affiliated_keyword_nodes(r.rest, c))
            ELSE [nodes |-> <<>>, rest |-> input]
    IN First(affiliated_keyword_node(input, c))

Digits == {"0", "1", "2", "3", "4", "5", "6", "7", "8", "9"}

\* fn_def_node_base: the affiliated keywords, `[fn:LABEL]`, the rest of the
\* line as FN_CONTENT and the blank lines after it
fn_def_node(input, c) ==
    LET Built(aff, label, l, post) ==
            Parsed("FN_DEF",
                   aff.nodes
                   \o <<Token("L_BRACKET", <<"[">>), Token("KEYWORD", <<"f", "n">>),
                        Token("COLON", <<":">>), Token("FN_LABEL", label),
                        Token("R_BRACKET", <<"]">>),
                        Node("FN_CONTENT", standard_object_nodes(l.content))>>
                   \o OptToken("WHITESPACE", l.ws)
                   \o OptToken("NEW_LINE", l.nl)
                   \o post.tokens,
                   post.rest)
        Content(aff, label, l) == Built(aff, label, l, blank_lines(l.rest))
        Label(aff, rest, n) ==
            IF n = 0 \/ n >= Len(rest) \/ rest[n + 1] # "]" THEN Failed(input)
            ELSE Content(aff, Take(rest, n), trim_line_end(Drop(rest, n + 1)))
        Open(aff) ==
            IF starts_with(aff.rest, <<"[", "f", "n", ":">>)
            THEN Label(aff, Drop(aff.rest, 4),
                       LeadIn(Drop(aff.rest, 4), NameChars \cup Digits))
            ELSE Failed(input)
    IN Open(affiliated_keyword_nodes(input, c))

\* the names of the keyword lines tried
AffiliatedNames ==
    { <<"N", "A", "M", "E">>,
      <<"n", "a", "m", "e">>,
      <<"C", "a", "p", "t", "i", "o", "n">>,
      <<"R", "E", "S", "U", "L", "T", "S">>,
      <<"A", "T", "T", "R", "_", "p", "o", "i">>,
      <<"A", "T", "T", "R", "_">>,
      <<"a", "t", "t", "r", "_", "x">>,
      <<"A", "T", "T", "R">>,
      <<"T", "I", "T", "L", "E">>,
      <<"t", "i", "t", "l", "e">>,
      <<"X">>,
      <<"N", "A", "M", "E", "S">> }

\* the line `#+NAME: 1` or `#+NAME[o]: 1`
AffiliatedLine(l) ==
    <<"#", "+">> \o l.name \o (IF l.opt THEN <<"[", "o", "]">> ELSE <<>>)
    \o <<":", " ", "1", "\n">>

\* the keyword lines followed by the footnote definition of the snapshot
FnDefText(lines) ==
    Concat([i \in 1..Len(lines) |-> AffiliatedLine(lines[i])])
    \o <<"[", "f", "n", ":", "W", "O", "R", "D", "-", "1", "]", " ", "x">>

AffiliatedConfigs == {DefaultAffiliated, {}, {<<"T", "I", "T", "L", "E">>}}

InitAffiliated ==
    \E n \in 0..MaxAffiliated :
    \E lines \in [1..n -> [name : AffiliatedNames, opt : BOOLEAN]] :
    \E c \in AffiliatedConfigs :
        /\ green = Node("DOCUMENT", <<>>)
        /\ old = FnDefText(lines)
        /\ call = NoCall
        /\ edits = 0
        /\ fn = "none"
        /\ arg = [c |-> c, lines |-> lines]
        /\ ret = <<>>
        /\ trav = NoTraversal

\* fn_def_node on the text old under the configuration arg.c
FnDefNode ==
    /\ fn = "none"
    /\ fn' = "fn_def_node"
    /\ ret' = fn_def_node(old, arg.c)
    /\ UNCHANGED <<trav, green, old, call, edits, arg>>

NextAffiliated == FnDefNode

SpecAffiliated == InitAffiliated /\ [][NextAffiliated]_vars

(***************************************************************************)
(* RangeShape::new on parsed documents (src/src/replace.rs).               *)
(***************************************************************************)
\* the documents of the RangeShape assertions of the test of replace.rs
AbcDoc == <<"*", "*", " ", "a", "b", "c", "\n", "*", "*", " ", "b">>

AbcSubDoc == <<"*", " ", "a", "b", "c", "\n", "*", "*", " ", "b">>

ShapeDocs == Docs \cup {AbcDoc, AbcSubDoc}

InitShape ==
    \E text \in ShapeDocs : \E org \in {Parse(text)} :
        /\ ~org.panic
        /\ green = org.node
        /\ call = NoCall
        /\ old = text
        /\ edits = 0
        /\ fn = "none"
        /\ arg = <<>>
        /\ ret = <<>>
        /\ trav = NoTraversal

\* RangeShape::new(document, range) for one range within the document
Classify ==
    /\ fn = "none"
    /\ \E start \in 0..TextLen(green) : \E end \in start..TextLen(green) :
        /\ arg' = Range(start, end)
        /\ ret' = RangeShape(green, Range(start, end))
    /\ fn' = "RangeShape"
    /\ UNCHANGED <<trav, green, old, call, edits>>

NextShape == Classify

SpecShape == InitShape /\ [][NextShape]_vars

(***************************************************************************)
(* ReplaceWithShape::new on replacement texts (src/src/replace.rs).        *)
(***************************************************************************)
\* the longest enumerated replacement text
MaxWith == 6

\* the texts of the ReplaceWithShape assertions of the test of replace.rs
WithSeeds ==
    { <<" ", "*", "*", " ", "a">>, <<"\n", "*", "*", " ", "a">>,
      <<"*", "*", " ", "a">>,
      <<"*", "*", " ", "a", "\n", "*", " ", "1">>,
      <<"*", " ", "a", "\n", "*", "*", " ", "1">>,
      <<"*", "*", " ", "a", "\n", "*", "*", " ", "1">> }

InitWith ==
    \E text \in Texts(MaxWith) \cup WithSeeds :
        /\ green = Node("DOCUMENT", <<>>)
        /\ old = text
        /\ call = NoCall
        /\ edits = 0
        /\ fn = "none"
        /\ arg = <<>>
        /\ ret = <<>>
        /\ trav = NoTraversal

\* ReplaceWithShape::new(old)
NewReplaceWithShape ==
    /\ fn = "none"
    /\ fn' = "ReplaceWithShape"
    /\ ret' = ReplaceWithShape(old)
    /\ UNCHANGED <<trav, green, old, call, edits, arg>>

NextWith == NewReplaceWithShape

SpecWith == InitWith /\ [][NextWith]_vars

(***************************************************************************)
(* Cloze (src/src/syntax/cloze.rs).                                        *)
(***************************************************************************)
\* the longest enumerated input behind the opening `{{`
MaxCloze == 6

RECURSIVE cloze_scan_plain(_, _, _)
\* the scan for the end of the text as it would be without inside_latex
cloze_scan_plain(input, index, inside_latex) ==
    IF index >= Len(input) THEN 0
    ELSE IF input[index + 1] = "}" THEN index
    ELSE cloze_scan_plain(input, index + 1, inside_latex)

RECURSIVE cloze_scan(_, _, _)
\* the for loop of cloze_node_base from the byte at index on: text_end, which
\* stays 0 when the loop runs out
cloze_scan(input, index, inside_latex) ==
    IF index >= Len(input) THEN 0
    ELSE IF input[index + 1] = "}" /\ ~inside_latex THEN index
    ELSE IF input[index + 1] = "$" THEN cloze_scan(input, index + 1, ~inside_latex)
    ELSE cloze_scan(input, index + 1, inside_latex)

\* opt(tuple((l_curly_token, take_until("}"), r_curly_token))): the hint, if
\* any, and the input behind it
cloze_hint(input) ==
    IF /\ input # <<>>
       /\ Head(input) = "{"
       /\ LeadOut(Tail(input), {"}"}) < Len(input) - 1
    THEN [some |-> TRUE, text |-> Take(Tail(input), LeadOut(Tail(input), {"}"})),
          rest |-> Drop(input, LeadOut(Tail(input), {"}"}) + 2)]
    ELSE [some |-> FALSE, text |-> <<>>, rest |-> input]

\* opt(tuple((at_token, take_until("}")))): the id, if any, and the input
\* from the closing brace on
cloze_id(input) ==
    IF /\ input # <<>>
       /\ Head(input) = "@"
       /\ LeadOut(Tail(input), {"}"}) < Len(input) - 1
    THEN [some |-> TRUE, text |-> Take(Tail(input), LeadOut(Tail(input), {"}"})),
          rest |-> Drop(input, LeadOut(Tail(input), {"}"}) + 1)]
    ELSE [some |-> FALSE, text |-> <<>>, rest |-> input]

\* cloze_node_base
cloze_node(input) ==
    LET Built(text, hint, id) ==
            IF id.rest = <<>> \/ Head(id.rest) # "}" THEN Failed(input)
            ELSE Parsed("CLOZE",
                        <<Token("L_CURLY2", <<"{", "{">>)>>
                        \o standard_object_nodes(text)
                        \o <<Token("R_CURLY", <<"}">>)>>
                        \o (IF hint.some
                            THEN <<Token("L_CURLY", <<"{">>)>>
                                 \o OptToken("TEXT", hint.text)
                                 \o <<Token("R_CURLY", <<"}">>)>>
                            ELSE <<>>)
                        \o (IF id.some
                            THEN <<Token("AT", <<"@">>)>> \o OptToken("TEXT", id.text)
                            ELSE <<>>)
                        \o <<Token("R_CURLY", <<"}">>)>>,
                        Tail(id.rest))
        Hint(text, hint) == Built(text, hint, cloze_id(hint.rest))
        Text(rest, text_end) ==
            IF text_end = 0 THEN Failed(input)
            ELSE Hint(Take(rest, text_end), cloze_hint(Drop(rest, text_end + 1)))
    IN IF starts_with(input, <<"{", "{">>)
       THEN Text(Drop(input, 2), cloze_scan(Drop(input, 2), 0, FALSE))
       ELSE Failed(input)

ClozeAlphabet == {"{", "}", "$", "@", "a"}

\* the inputs of the test of cloze.rs
ClozeSeeds ==
    { <<"{", "{", "t", "e", "x", "t", "}", "}">>,
      <<"{", "{", "t", "e", "x", "t", "}", "@", "i", "d", "}">>,
      <<"{", "{", "t", "e", "x", "t", "}", "{", "h", "i", "n", "t", "}", "}">>,
      <<"{", "{", "t", "e", "x", "t", "}", "{", "h", "i", "n", "t", "}", "@", "i", "d", "}">>,
      <<"{", "{", "$", "\\", "f", "r", "a", "c", "{", "a", "}", "{", "b", "}", "$", "}", "{", "f", "r", "a", "c", "t", "i", "o", "n", "s", "}", "}">>,
      <<"{", "{", "}", "}">>,
      <<"{", "{", "t", "e", "x", "t", "}">>,
      <<"{", "t", "e", "x", "t", "}", "}">>,
      <<"{", "{", "t", "e", "x", "t", "}", "{", "}">>,
      <<"{", "{", "t", "e", "x", "t", "}", "a", "}">> }

ClozeTexts ==
    {<<"{", "{">> \o t : t \in UNION {[1..n -> ClozeAlphabet] : n \in 0..MaxCloze}}
    \cup ClozeSeeds

InitCloze ==
    \E text \in ClozeTexts :
        /\ green = Node("DOCUMENT", <<>>)
        /\ old = text
        /\ call = NoCall
        /\ edits = 0
        /\ fn = "none"
        /\ arg = <<>>
        /\ ret = <<>>
        /\ trav = NoTraversal

\* cloze_node on the input old
ClozeNode ==
    /\ fn = "none"
    /\ fn' = "cloze_node"
    /\ ret' = cloze_node(old)
    /\ UNCHANGED <<trav, green, old, call, edits, arg>>

NextCloze == ClozeNode

SpecCloze == InitCloze /\ [][NextCloze]_vars

(***************************************************************************)
(* The drawer parsers on lines of text (src/src/syntax/drawer.rs).         *)
(***************************************************************************)
\* the most lines of an input of the drawer parsers
MaxDrawerLines == 3

\* the for loop of drawer_node_base as it would be if it took the last line
\* start at which drawer_end_node succeeds
drawer_end_last(s) ==
    IF {i \in LineStarts(s) : drawer_end_node(Drop(s, i)).ok} = {} THEN -1
    ELSE CHOOSE i \in {j \in LineStarts(s) : drawer_end_node(Drop(s, j)).ok} :
            \A j \in LineStarts(s) : drawer_end_node(Drop(s, j)).ok => j <= i

\* the for loop of drawer_node_base: the first line start of s at which
\* drawer_end_node succeeds, or -1
drawer_end_start(s) ==
    MinOr({i \in LineStarts(s) : drawer_end_node(Drop(s, i)).ok}, -1)

\* drawer_node_base
drawer_node_base(s) ==
    LET Built(begin, pre, contents, end, post) ==
            Parsed("DRAWER",
                   begin.nodes \o pre.tokens
                   \o <<Node("DRAWER_CONTENT", element_nodes(contents))>>
                   \o end.nodes \o post.tokens,
                   post.rest)
        End(begin, pre, contents, end) ==
            Built(begin, pre, contents, end, blank_lines(end.rest))
        Scan(begin, pre, i) ==
            IF i < 0 THEN Failed(s)
            ELSE End(begin, pre, Take(pre.rest, i), drawer_end_node(Drop(pre.rest, i)))
        Pre(begin, pre) == Scan(begin, pre, drawer_end_start(pre.rest))
        Begin(begin) ==
            IF ~begin.ok THEN Failed(s) ELSE Pre(begin, blank_lines(begin.rest))
    IN Begin(drawer_begin_node(s))

\* the lines the inputs are built from, without their line breaks
LineProperties == <<":", "P", "R", "O", "P", "E", "R", "T", "I", "E", "S", ":">>

LinePropertiesLower == <<":", "p", "r", "o", "p", "e", "r", "t", "i", "e", "s", ":", " ">>

LineDrawer == <<":", "D", "R", "A", "W", "E", "R", ":">>

LineProperty == <<":", "a", ":", " ", "b">>

LineNoSpace == <<":", "a", ":", "b">>

LineKeyOnly == <<":", "a", ":">>

LinePropertyPlus == <<" ", " ", ":", "a", "+", ":", "\t", "b">>

LineEnd == <<":", "E", "N", "D", ":">>

LineEndLower == <<" ", ":", "e", "n", "d", ":", " ">>

LineBlank == <<>>

LineText == <<"x">>

LineEndValue == <<":", "E", "N", "D", ":", " ", "x">>

DrawerLinePool ==
    {LineProperties, LinePropertiesLower, LineDrawer, LineProperty,
     LineNoSpace, LineKeyOnly, LinePropertyPlus, LineEnd,
     LineEndLower, LineBlank, LineText, LineEndValue}

\* the lines joined, each with a line feed, the last one only if nl
LinesText(lines, nl) ==
    LET Joined(text) == IF nl \/ text = <<>> THEN text ELSE Take(text, Len(text) - 1)
    IN Joined(Concat([i \in 1..Len(lines) |-> lines[i] \o <<"\n">>]))

InitDrawerParse ==
    \E n \in 1..MaxDrawerLines : \E lines \in [1..n -> DrawerLinePool] :
    \E nl \in BOOLEAN :
        /\ green = Node("DOCUMENT", <<>>)
        /\ old = LinesText(lines, nl)
        /\ call = NoCall
        /\ edits = 0
        /\ fn = "none"
        /\ arg = [lines |-> lines, nl |-> nl]
        /\ ret = <<>>
        /\ trav = NoTraversal

\* property_drawer_node on the input old
PropertyDrawerNode ==
    /\ fn = "none"
    /\ fn' = "property_drawer_node"
    /\ ret' = property_drawer_node_base(old)
    /\ UNCHANGED <<trav, green, old, call, edits, arg>>

\* drawer_node on the input old
DrawerNode ==
    /\ fn = "none"
    /\ fn' = "drawer_node"
    /\ ret' = drawer_node_base(old)
    /\ UNCHANGED <<trav, green, old, call, edits, arg>>

NextDrawerParse == PropertyDrawerNode \/ DrawerNode

SpecDrawerParse == InitDrawerParse /\ [][NextDrawerParse]_vars

(***************************************************************************)
(* verify_pre on the text in front of `^` or `_`                           *)
(* (src/src/syntax/subscript_superscript.rs).                              *)
(***************************************************************************)
\* the longest enumerated text in front of the marker
MaxPre == 3

PreAlphabet == {"a", "_", " ", "\t", "\n", "\r"}

InitPre ==
    \E n \in 0..MaxPre : \E text \in [1..n -> PreAlphabet] :
    \E c \in UseSubSuperscript :
        /\ green = Node("DOCUMENT", <<>>)
        /\ old = text
        /\ call = NoCall
        /\ edits = 0
        /\ fn = "none"
        /\ arg = [c |-> c]
        /\ ret = <<>>
        /\ trav = NoTraversal

\* verify_pre on the text old in front of the marker
VerifyPre ==
    /\ fn = "none"
    /\ fn' = "verify_pre"
    /\ ret' = verify_pre(old, arg.c)
    /\ UNCHANGED <<trav, green, old, call, edits, arg>>

NextPre == VerifyPre

SpecPre == InitPre /\ [][NextPre]_vars

(***************************************************************************)
(* HtmlExport on tables (src/src/export/html.rs): the rows of a table are  *)
(* its children, a rule row or a standard row; the cells of a row do not   *)
(* touch table_row and are left out.                                       *)
(***************************************************************************)
\* the most rows of the tables of an enumerated document
MaxRows == 4

\* a table: what OrgTable::has_header answers and, per row, what
\* OrgTableRow::is_rule answers
OrgTable(has_header, rws) == [has_header |-> has_header, rows |-> rws]

\* the tables of exactly n rows
TablesOf(n) == {OrgTable(h, rws) : h \in BOOLEAN, rws \in [1..n -> BOOLEAN]}

RECURSIVE TableDocsOf(_)
\* the sequences of tables that have n rows together
TableDocsOf(n) ==
    IF n = 0 THEN {<<>>}
    ELSE UNION {{<<tb>> \o d : tb \in TablesOf(k), d \in TableDocsOf(n - k)} : k \in 1..n}

TableDocs == UNION {TableDocsOf(n) : n \in 1..MaxRows}

\* HtmlExport::default()
HtmlExportDefault ==
    [output |-> <<>>, in_descriptive_list |-> <<>>, table_row |-> "HeaderRule"]

\* Event::Enter(Container::OrgTable(table))
EnterOrgTable(exp, has_header) ==
    [exp EXCEPT !.output = @ \o <<"<table>">>,
                !.table_row = IF has_header THEN "HeaderRule" ELSE "BodyRule"]

\* Event::Leave(Container::OrgTable(_))
LeaveOrgTable(exp) ==
    [exp EXCEPT !.output =
        @ \o (CASE exp.table_row = "Body" -> <<"</tbody>">>
                [] exp.table_row = "Header" -> <<"</thead>">>
                [] OTHER -> <<>>)
          \o <<"</table>">>]

\* the arm of a rule row as it would be if it did not push the closing tag
RuleRowUnclosed(exp) ==
    CASE exp.table_row = "Body" -> [exp EXCEPT !.table_row = "BodyRule"]
      [] exp.table_row = "Header" -> [exp EXCEPT !.table_row = "BodyRule"]
      [] OTHER -> exp

\* the arm of a rule row, on Enter and on Leave alike: an open section is closed
RuleRow(exp) ==
    CASE exp.table_row = "Body" ->
             [exp EXCEPT !.output = @ \o <<"</tbody>">>, !.table_row = "BodyRule"]
      [] exp.table_row = "Header" ->
             [exp EXCEPT !.output = @ \o <<"</thead>">>, !.table_row = "BodyRule"]
      [] OTHER -> exp

\* Event::Enter(Container::OrgTableRow(row)): the exporter behind the event
\* and the control called
EnterOrgTableRow(exp, is_rule) ==
    IF is_rule
    THEN [exp |-> RuleRow(exp), control |-> "skip"]
    ELSE [exp |->
            CASE exp.table_row = "HeaderRule" ->
                     [exp EXCEPT !.table_row = "Header",
                                 !.output = @ \o <<"<thead>", "<tr>">>]
              [] exp.table_row = "BodyRule" ->
                     [exp EXCEPT !.table_row = "Body",
                                 !.output = @ \o <<"<tbody>", "<tr>">>]
              [] OTHER -> [exp EXCEPT !.output = @ \o <<"<tr>">>],
          control |-> "continue"]

\* Event::Leave(Container::OrgTableRow(row))
LeaveOrgTableRow(exp, is_rule) ==
    IF is_rule
    THEN [exp |-> RuleRow(exp), control |-> "skip"]
    ELSE [exp |-> [exp EXCEPT !.output = @ \o <<"</tr>">>], control |-> "continue"]

InitTable ==
    \E d \in TableDocs :
        /\ green = Node("DOCUMENT", <<>>)
        /\ old = <<>>
        /\ call = NoCall
        /\ edits = 0
        /\ fn = "none"
        /\ arg = d
        /\ ret = <<>>
        /\ trav = NoTraversal

\* the traversal of the tables arg with a fresh HtmlExport starts
ExportTables ==
    /\ fn = "none"
    /\ fn' = "export_tables"
    /\ ret' = HtmlExportDefault
    /\ trav' = [NoTraversal EXCEPT !.visitor = "html", !.stack = <<Frame(<<>>, 0)>>]
    /\ UNCHANGED <<green, old, call, edits, arg>>

ExportingTables == fn = "export_tables" /\ ~trav.done

\* the walk reaches the next table: Enter is delivered and its rows are walked
TableEnter ==
    /\ ExportingTables
    /\ Len(trav.stack) = 1
    /\ Top.next < Len(arg)
    /\ ret' = EnterOrgTable(ret, arg[Top.next + 1].has_header)
    /\ trav' = [trav EXCEPT !.stack = Append(Advance, Frame(<<Top.next + 1>>, 0))]
    /\ UNCHANGED <<green, old, call, edits, fn, arg>>

\* the walk reaches the next row of the table: Enter is delivered; on skip
\* the row is left without Leave, and otherwise the row is walked
RowEnter ==
    /\ ExportingTables
    /\ Len(trav.stack) = 2
    /\ Top.next < Len(arg[Top.path[1]].rows)
    /\ LET Handled(r) ==
            /\ ret' = r.exp
            /\ trav' = [trav EXCEPT !.stack =
                          IF r.control = "skip" THEN Advance
                          ELSE Append(Advance, Frame(Append(Top.path, Top.next + 1), 0))]
       IN Handled(EnterOrgTableRow(ret, arg[Top.path[1]].rows[Top.next + 1]))
    /\ UNCHANGED <<green, old, call, edits, fn, arg>>

\* the row is walked: Leave is delivered
RowLeave ==
    /\ ExportingTables
    /\ Len(trav.stack) = 3
    /\ ret' = LeaveOrgTableRow(ret, arg[Top.path[1]].rows[Top.path[2]]).exp
    /\ trav' = [trav EXCEPT !.stack = Pop]
    /\ UNCHANGED <<green, old, call, edits, fn, arg>>

\* the rows of the table are walked: Leave is delivered; behind the last
\* table the traversal is done
TableLeave ==
    /\ ExportingTables
    /\ Len(trav.stack) = 2
    /\ Top.next = Len(arg[Top.path[1]].rows)
    /\ ret' = LeaveOrgTable(ret)
    /\ trav' = [trav EXCEPT !.stack = Pop, !.done = (Top.path[1] = Len(arg))]
    /\ UNCHANGED <<green, old, call, edits, fn, arg>>

NextTable == ExportTables \/ TableEnter \/ RowEnter \/ RowLeave \/ TableLeave

SpecTable == InitTable /\ [][NextTable]_vars

(***************************************************************************)
(* HtmlExport on lists (src/src/export/html.rs): a list holds items and an *)
(* item holds lists; the objects of an item and of its tag push no list    *)
(* tag and are left out.  The lists are read as the walk reaches them.     *)
(***************************************************************************)
\* the deepest nesting of lists
MaxListDepth == 2

\* the most events of one traversal
MaxListEvents == 9

\* Event::Leave(Container::List(list)) as it would be without the pop
LeaveListKept(exp, is_ordered) ==
    [exp EXCEPT !.output =
        @ \o (IF is_ordered THEN <<"</ol>">>
              ELSE IF Len(exp.in_descriptive_list) > 0
                      /\ exp.in_descriptive_list[Len(exp.in_descriptive_list)]
              THEN <<"</dl>">>
              ELSE <<"</ul>">>)]

\* Event::Enter(Container::List(list))
EnterList(exp, is_ordered, is_descriptive) ==
    IF is_ordered
    THEN [exp EXCEPT !.in_descriptive_list = Append(@, FALSE),
                     !.output = @ \o <<"<ol>">>]
    ELSE IF is_descriptive
    THEN [exp EXCEPT !.in_descriptive_list = Append(@, TRUE),
                     !.output = @ \o <<"<dl>">>]
    ELSE [exp EXCEPT !.in_descriptive_list = Append(@, FALSE),
                     !.output = @ \o <<"<ul>">>]

\* Event::Leave(Container::List(list)); Vec::pop on an empty vector does nothing
LeaveList(exp, is_ordered) ==
    [exp EXCEPT !.output =
        @ \o (IF is_ordered THEN <<"</ol>">>
              ELSE IF Len(exp.in_descriptive_list) > 0
                      /\ exp.in_descriptive_list[Len(exp.in_descriptive_list)]
              THEN <<"</dl>">>
              ELSE <<"</ul>">>),
                !.in_descriptive_list =
                    IF Len(@) = 0 THEN @ ELSE SubSeq(@, 1, Len(@) - 1)]

\* Event::Enter(Container::ListItem(list_item))
EnterListItem(exp) ==
    IF Len(exp.in_descriptive_list) > 0
       /\ exp.in_descriptive_list[Len(exp.in_descriptive_list)]
    THEN [exp EXCEPT !.output = @ \o <<"<dt>", "</dt>", "<dd>">>]
    ELSE [exp EXCEPT !.output = @ \o <<"<li>">>]

\* Event::Leave(Container::ListItem(_))
LeaveListItem(exp) ==
    IF Len(exp.in_descriptive_list) > 0
       /\ exp.in_descriptive_list[Len(exp.in_descriptive_list)]
    THEN [exp EXCEPT !.output = @ \o <<"</dd>">>]
    ELSE [exp EXCEPT !.output = @ \o <<"</li>">>]

\* a list the walk is in: what List::is_ordered and List::is_descriptive
\* answer, and the number of its items walked so far
ListFrame(is_ordered, is_descriptive) ==
    [kind |-> "LIST", is_ordered |-> is_ordered,
     is_descriptive |-> is_descriptive, items |-> 0]

ItemFrame == [kind |-> "LIST_ITEM"]

\* the lists the walk is in
OpenLists == {i \in 1..Len(trav.stack) : trav.stack[i].kind = "LIST"}

InitList ==
    /\ green = Node("DOCUMENT", <<>>)
    /\ old = <<>>
    /\ call = NoCall
    /\ edits = 0
    /\ fn = "none"
    /\ arg = <<>>
    /\ ret = <<>>
    /\ trav = NoTraversal

\* the traversal of a document of lists with a fresh HtmlExport starts
ExportLists ==
    /\ fn = "none"
    /\ fn' = "export_lists"
    /\ ret' = HtmlExportDefault
    /\ trav' = [NoTraversal EXCEPT !.visitor = "html"]
    /\ UNCHANGED <<green, old, call, edits, arg>>

ExportingLists == fn = "export_lists" /\ Len(trav.events) < MaxListEvents

\* the walk reaches a list, in the document or in an item: Enter is delivered
ListEnter ==
    /\ ExportingLists
    /\ IF trav.stack = <<>> THEN TRUE ELSE Top.kind = "LIST_ITEM"
    /\ Cardinality(OpenLists) < MaxListDepth
    /\ \E is_ordered \in BOOLEAN, is_descriptive \in BOOLEAN :
        /\ ret' = EnterList(ret, is_ordered, is_descriptive)
        /\ trav' = [trav EXCEPT
                        !.stack = Append(@, ListFrame(is_ordered, is_descriptive)),
                        !.events = Append(@, "Enter(List)")]
    /\ UNCHANGED <<green, old, call, edits, fn, arg>>

\* the walk reaches the next item of the list: Enter is delivered
ItemEnter ==
    /\ ExportingLists
    /\ trav.stack # <<>> /\ Top.kind = "LIST"
    /\ ret' = EnterListItem(ret)
    /\ trav' = [trav EXCEPT
                    !.stack = Append([@ EXCEPT ![Len(@)].items = @ + 1], ItemFrame),
                    !.events = Append(@, "Enter(ListItem)")]
    /\ UNCHANGED <<green, old, call, edits, fn, arg>>

\* the item is walked: Leave is delivered
ItemLeave ==
    /\ ExportingLists
    /\ trav.stack # <<>> /\ Top.kind = "LIST_ITEM"
    /\ ret' = LeaveListItem(ret)
    /\ trav' = [trav EXCEPT !.stack = Pop, !.events = Append(@, "Leave(ListItem)")]
    /\ UNCHANGED <<green, old, call, edits, fn, arg>>

\* the items of the list, at least one, are walked: Leave is delivered
ListLeave ==
    /\ ExportingLists
    /\ trav.stack # <<>> /\ Top.kind = "LIST" /\ Top.items > 0
    /\ ret' = LeaveList(ret, Top.is_ordered)
    /\ trav' = [trav EXCEPT !.stack = Pop, !.events = Append(@, "Leave(List)")]
    /\ UNCHANGED <<green, old, call, edits, fn, arg>>

NextList == ExportLists \/ ListEnter \/ ItemEnter \/ ItemLeave \/ ListLeave

SpecList == InitList /\ [][NextList]_vars

(***************************************************************************)
(* Properties.                                                             *)
(***************************************************************************)
\* the text a call of replace_range has to leave: the text before it with the
\* bytes of the range replaced
Expected == StrReplaceRange(old, call.range.start, call.range.end, call.with)

Replaced == call.op = "replace_range"

\* the tree a parse from scratch gives for text
FreshTree(text) == Unwrap(document_node(text)).node

RECURSIVE NodePaths(_, _)
\* the paths of all nodes of the tree under the node at path
NodePaths(root, path) ==
    {path} \cup UNION {NodePaths(root, Append(path, i)) :
                          i \in {j \in 1..Len(NodeAt(root, path).children) :
                                    ~IsToken(NodeAt(root, Append(path, j)))}}

KindPaths(root, kind) == {p \in NodePaths(root, <<>>) : NodeAt(root, p).kind = kind}

\* p comes before q in pre-order: p is an ancestor of q, or p lies in the
\* subtree of an earlier sibling
PreOrderBefore(p, q) ==
    /\ p # q
    /\ \/ Len(p) < Len(q) /\ SubSeq(q, 1, Len(p)) = p
       \/ \E i \in 1..Len(p) :
            /\ i <= Len(q)
            /\ SubSeq(p, 1, i - 1) = SubSeq(q, 1, i - 1)
            /\ p[i] < q[i]

\* the nodes of kind whose range contains offset
Containing(root, kind, offset) ==
    {p \in KindPaths(root, kind) : contains(RangeOf(root, p), offset)}

TopHeadlines(g) == {i \in 1..Len(g.children) : IsHeadline(g.children[i])}

\* C1 (as claimed): after replace_range(R, S), to_org() is the text before the
\* call with the bytes R.start..R.end replaced by S, on either path
C1_EditRoundTrip == (Replaced /\ ~call.panic) => to_org(green) = Expected

\* C2 (as claimed): after replace_range(R, S) the tree is the tree of a parse
\* of the edited text from scratch
C2_ReparseEquivalence == (Replaced /\ ~call.panic) => green = FreshTree(Expected)

C4_ReplaceNeverFails == Replaced => ~call.panic

\* C5 (as claimed): node_at_offset returns the innermost node of the kind whose
\* range contains the offset, and None when there is none or the offset lies
\* outside the document
C5_Innermost ==
    fn = "node_at_offset" =>
        /\ Containing(green, arg.kind, arg.offset) = {} => ret = <<>>
        /\ arg.offset >= TextLen(green) => ret = <<>>
        /\ Containing(green, arg.kind, arg.offset) # {} =>
            /\ ret # <<>>
            /\ ret[1] \in Containing(green, arg.kind, arg.offset)
            /\ \A p \in Containing(green, arg.kind, arg.offset) : Len(p) <= Len(ret[1])

\* C6: first_node returns the first node of the kind in pre-order, None when
\* the tree has none; for `* A`, `** B`, `*** C` it is headline A
C6_FirstNodePreOrder ==
    fn = "first_node" =>
        /\ KindPaths(green, arg.kind) = {} <=> ret = <<>>
        /\ ret # <<>> =>
            /\ ret[1] \in KindPaths(green, arg.kind)
            /\ \A q \in KindPaths(green, arg.kind) \ {ret[1]} : PreOrderBefore(ret[1], q)
        /\ (old = NestedDoc /\ arg.kind = "HEADLINE") =>
            (ret # <<>> /\ title_raw(NodeAt(green, ret[1])) = <<"A">>)

C6_Witness ==
    /\ fn = "first_node"
    /\ old = NestedDoc
    /\ arg.kind = "HEADLINE"
    /\ Cardinality(KindPaths(green, "HEADLINE")) = 3
    /\ ret = << <<1>> >>

HelloEdit ==
    /\ Replaced
    /\ old = HelloDoc
    /\ call.range = Range(0, 2)
    /\ call.with = FiveStars

\* the level of the first headline of the document, 0 when it has none
FirstHeadlineLevel(g) ==
    IF first_node(g, "HEADLINE") = <<>> THEN 0
    ELSE HeadlineLevel(NodeAt(g, first_node(g, "HEADLINE")[1]))

\* C7 (as claimed): on `** hello`, replace_range(0..2, `*****`) takes the
\* headline-local path and leaves a first headline of level 5
C7_HelloHeadlineLocal ==
    HelloEdit => (call.path = "headline" /\ FirstHeadlineLevel(green) = 5)

\* C7 (amended): on `** hello`, the range 0..2 overlaps the stars and so lies
\* in no headline's body; replace_range(0..2, `*****`) reparses the whole
\* document and leaves a first headline of level 5
C7_HelloFullParse ==
    HelloEdit =>
        /\ call.rshape = "Other"
        /\ call.path = "full"
        /\ ~call.panic
        /\ FirstHeadlineLevel(green) = 5

C7_Witness == HelloEdit /\ FirstHeadlineLevel(green) = 5

ShrinkEdit ==
    /\ Replaced
    /\ old = ShrinkDoc
    /\ call.range = Range(4, 8)
    /\ call.with = <<"*", " ", "c">>

\* C8: a range that is exactly a headline of level L, replaced by a headline of
\* a level below L, is never reparsed alone: the whole document is reparsed and
\* the tree is the one of a fresh parse; `* a\n** b` with `** b` replaced by
\* `* c` has two top-level headlines
C8_LevelShrinkFullParse ==
    /\ (/\ Replaced
        /\ call.rshape = "ExactHeadline"
        /\ call.wshape = "ExactHeadline"
        /\ call.wlevel < call.rlevel) =>
            (call.path = "full" /\ ~call.panic /\ green = FreshTree(Expected))
    /\ ShrinkEdit => (call.rshape = "ExactHeadline" /\ Cardinality(TopHeadlines(green)) = 2)

C8_Witness ==
    /\ ShrinkEdit
    /\ call.rlevel = 2
    /\ call.wlevel = 1
    /\ call.path = "full"
    /\ Cardinality(TopHeadlines(green)) = 2

\* the trimmed values of the TITLE keywords of the zeroth section, in order
TitleValues(doc) ==
    LET Of(kws) == [i \in 1..Len(kws) |-> trim(value(kws[i]))]
    IN Of(SelectSeq(keywords(doc), LAMBDA kw : eq_ignore_ascii_case(key(kw), TITLE)))

RECURSIVE JoinSpaces(_)
\* the strings of vals with one space between each two neighbours
JoinSpaces(vals) ==
    IF vals = <<>> THEN <<>>
    ELSE IF Len(vals) = 1 THEN vals[1]
    ELSE vals[1] \o <<" ">> \o JoinSpaces(Tail(vals))

\* C9 (as claimed): Document::title is None exactly when the zeroth section
\* has no TITLE keyword, and otherwise the trimmed values of those keywords
\* joined by single spaces, empty values included
C9_TitleJoined ==
    fn = "title" =>
        ret = (IF TitleValues(green) = <<>> THEN <<>>
               ELSE <<JoinSpaces(TitleValues(green))>>)

\* the positions of the node properties of drawer whose key text is k
PropsOfKey(drawer, k) ==
    {i \in 1..Len(drawer.children) :
        /\ ~IsToken(drawer.children[i])
        /\ drawer.children[i].kind = "NODE_PROPERTY"
        /\ TextTokens(drawer.children[i])[1].text = k}

TheDrawer == NodeAt(green, <<1>>)

\* C10: get(key) returns the value token of the first node property whose key
\* text is key, None when there is none; for `:ID: X` then `:ID: Y`, get("ID")
\* is the X of the first
C10_GetFirstMatch ==
    fn = "get" =>
        /\ PropsOfKey(TheDrawer, arg.key) = {} <=> ret = <<>>
        /\ ret # <<>> =>
            /\ ret[1].at \in PropsOfKey(TheDrawer, arg.key)
            /\ \A i \in PropsOfKey(TheDrawer, arg.key) : ret[1].at <= i
            /\ ret[1].token =
                   TextTokens(TheDrawer.children[ret[1].at])[
                       Len(TextTokens(TheDrawer.children[ret[1].at]))]
        /\ (old = DuplicateDrawer /\ arg.key = ID) =>
            (ret # <<>> /\ ret[1].token.text = <<"X">> /\ ret[1].at = 2)

C10_Witness ==
    /\ fn = "get"
    /\ old = DuplicateDrawer
    /\ arg.key = ID
    /\ Cardinality(PropsOfKey(TheDrawer, ID)) = 2
    /\ ret # <<>>
    /\ ret[1].token.text = <<"X">>

\* the key texts of the node properties of drawer
KeyTexts(drawer) ==
    {TextTokens(drawer.children[i])[1].text :
        i \in {j \in 1..Len(drawer.children) :
                  ~IsToken(drawer.children[j]) /\ drawer.children[j].kind = "NODE_PROPERTY"}}

\* the position of the last (first) node property of drawer with key text k
LastOfKey(drawer, k) ==
    CHOOSE i \in PropsOfKey(drawer, k) : \A j \in PropsOfKey(drawer, k) : j <= i

FirstOfKey(drawer, k) ==
    CHOOSE i \in PropsOfKey(drawer, k) : \A j \in PropsOfKey(drawer, k) : i <= j

\* the value token of the node property at position i of drawer
ValueAt(drawer, i) ==
    TextTokens(drawer.children[i])[Len(TextTokens(drawer.children[i]))]

\* C11: to_hash_map has one entry per distinct key text, each mapped to the
\* value of the last property of that key; to_index_map has the same entries,
\* in the order of the first occurrence of each key
C11_MapsKeepLast ==
    /\ fn = "to_hash_map" =>
        /\ DOMAIN ret = KeyTexts(TheDrawer)
        /\ \A k \in DOMAIN ret :
            /\ ret[k].at = LastOfKey(TheDrawer, k)
            /\ ret[k].token = ValueAt(TheDrawer, LastOfKey(TheDrawer, k))
    /\ fn = "to_index_map" =>
        /\ {ret[i].key : i \in 1..Len(ret)} = KeyTexts(TheDrawer)
        /\ Len(ret) = Cardinality(KeyTexts(TheDrawer))
        /\ \A i \in 1..Len(ret) :
            /\ ret[i].at = LastOfKey(TheDrawer, ret[i].key)
            /\ ret[i].token = ValueAt(TheDrawer, LastOfKey(TheDrawer, ret[i].key))
        /\ \A i, j \in 1..Len(ret) :
            i < j => FirstOfKey(TheDrawer, ret[i].key) < FirstOfKey(TheDrawer, ret[j].key)
        /\ [k \in KeyTexts(TheDrawer) |->
               [token |-> ValueAt(TheDrawer, LastOfKey(TheDrawer, k)),
                at |-> LastOfKey(TheDrawer, k)]] = to_hash_map(TheDrawer)

C11_Witness ==
    /\ fn = "to_hash_map"
    /\ old = DuplicateDrawer
    /\ DOMAIN ret = {ID}
    /\ ret[ID].token.text = <<"Y">>

\* the image suffixes as the claim lists them
RegisteredSuffixes ==
    {
     <<".", "p", "n", "g">>, <<".", "j", "p", "e", "g">>,
     <<".", "j", "p", "g">>, <<".", "g", "i", "f">>,
     <<".", "t", "i", "f", "f">>, <<".", "t", "i", "f">>,
     <<".", "x", "b", "m">>, <<".", "x", "p", "m">>, <<".", "p", "b", "m">>,
     <<".", "p", "g", "m">>, <<".", "p", "p", "m">>,
     <<".", "w", "e", "b", "p">>, <<".", "a", "v", "i", "f">>,
     <<".", "s", "v", "g">>}

\* the link as written has one of the suffixes at the end of its path
HasImageSuffix ==
    \E k \in 0..Len(arg.path) : Drop(arg.path, k) \in RegisteredSuffixes

\* C12: is_image is true exactly when the path ends with a registered image
\* suffix and the link has no description; has_description is true exactly
\* for a link written with a description
C12_IsImage ==
    /\ fn = "is_image" => (ret <=> (HasImageSuffix /\ arg.description = <<>>))
    /\ fn = "has_description" => (ret <=> arg.description # <<>>)

C12_Witness ==
    /\ fn = "is_image"
    /\ arg.path = <<"a", ".", "p", "n", "g">>
    /\ arg.description # <<>>
    /\ ret = FALSE

\* p is q or an ancestor of q
IsPrefix(p, q) == Len(p) <= Len(q) /\ SubSeq(q, 1, Len(p)) = p

RECURSIVE Walk(_, _, _)
\* the events of a pre-order walk of the element at path p, children in source
\* order, where the containers in skips are entered and neither walked nor left
Walk(g, p, skips) ==
    LET n == NodeAt(g, p)
        RECURSIVE Below(_)
        Below(i) == IF i > Len(n.children) THEN <<>>
                    ELSE Walk(g, Append(p, i), skips) \o Below(i + 1)
    IN IF IsToken(n)
       THEN (IF n.kind = "TEXT" THEN <<[type |-> "Text", path |-> p]>> ELSE <<>>)
       ELSE IF n.kind \notin Containers THEN <<>>
       ELSE IF p \in skips THEN <<[type |-> "Enter", path |-> p]>>
       ELSE <<[type |-> "Enter", path |-> p]>> \o Below(1)
            \o <<[type |-> "Leave", path |-> p]>>

\* the events delivered so far, without the controls
Delivered == [i \in 1..Len(trav.events) |->
                 [type |-> trav.events[i].type, path |-> trav.events[i].path]]

\* the containers on whose Enter the visitor called skip
Skipped == {trav.events[i].path : i \in {j \in 1..Len(trav.events) :
                                            trav.events[j].control = "skip"}}

Stopped == \E i \in 1..Len(trav.events) : trav.events[i].control = "stop"

\* how often piece occurs in the output of the visitor
CountOut(piece) == Cardinality({i \in 1..Len(trav.output) : trav.output[i] = piece})

LinksOf(g) == KindPaths(g, "LINK")

\* C13: after skip on Enter(c) no event of a descendant of c and no Leave(c)
\* is delivered, and everything else is: the later siblings and the Leave of
\* the ancestors; HtmlExport writes one `</a>` for every link that is no image
\* and none for an image link
C13_SkipSubtree ==
    fn = "traverse" =>
        /\ \A i \in 1..Len(trav.events) :
            trav.events[i].control = "skip" =>
                /\ trav.events[i].type = "Enter"
                /\ \A j \in (i + 1)..Len(trav.events) :
                       ~IsPrefix(trav.events[i].path, trav.events[j].path)
        /\ (trav.done /\ ~Stopped) => Delivered = Walk(green, <<>>, Skipped)
        /\ (trav.done /\ trav.visitor = "html") =>
            /\ CountOut("</a>") =
                   Cardinality({l \in LinksOf(green) : ~is_image(NodeAt(green, l))})
            /\ CountOut("<img>") =
                   Cardinality({l \in LinksOf(green) : is_image(NodeAt(green, l))})

C13_Witness ==
    /\ fn = "traverse"
    /\ trav.visitor = "html"
    /\ trav.done
    /\ Cardinality(Skipped) = 2
    /\ CountOut("<img>") = 1
    /\ CountOut("</a>") = 1

\* C14: the event during which the visitor calls stop is the last one
\* delivered, and the traversal has returned
C14_StopEnds ==
    fn = "traverse" =>
        \A i \in 1..Len(trav.events) :
            trav.events[i].control = "stop" =>
                (i = Len(trav.events) /\ trav.done /\ trav.stack = <<>>)

C14_Witness ==
    /\ fn = "traverse"
    /\ Stopped
    /\ trav.done
    /\ Len(trav.events) >= 3
    /\ Len(Walk(green, <<>>, {})) > Len(trav.events)

\* the numbers of Enter and Leave among the first k events
Enters(k) == Cardinality({i \in 1..k : trav.events[i].type = "Enter"})

Leaves_(k) == Cardinality({i \in 1..k : trav.events[i].type = "Leave"})

\* C15: without skip and stop the events are those of the pre-order walk:
\* every Enter has its one Leave later, the events between them are those of
\* its subtree, no prefix has more Leave than Enter (the indentation of the
\* wasm traverse is never negative), and the sequence depends on the tree alone
C15_ProperNesting ==
    (fn = "traverse" /\ Skipped = {} /\ ~Stopped) =>
        /\ \A k \in 0..Len(trav.events) : Leaves_(k) <= Enters(k)
        /\ trav.visitor = "wasm" =>
            /\ trav.ident >= 0
            /\ trav.ident = 2 * (Enters(Len(trav.events)) - Leaves_(Len(trav.events)))
        /\ trav.done =>
            /\ Delivered = Walk(green, <<>>, {})
            /\ \A i \in 1..Len(trav.events) :
                trav.events[i].type = "Enter" =>
                    /\ Cardinality({j \in 1..Len(trav.events) :
                           /\ trav.events[j].type = "Leave"
                           /\ trav.events[j].path = trav.events[i].path}) = 1
                    /\ \E j \in (i + 1)..Len(trav.events) :
                        /\ trav.events[j].type = "Leave"
                        /\ trav.events[j].path = trav.events[i].path
                        /\ \A k \in i..j : IsPrefix(trav.events[i].path, trav.events[k].path)

C15_Witness ==
    /\ fn = "traverse"
    /\ trav.visitor = "wasm"
    /\ trav.done
    /\ old = ShrinkDoc
    /\ trav.ident = 0
    /\ Enters(Len(trav.events)) >= 3

\* what the claim puts in the place of the character c
Replacement(c) ==
    CASE c = "<" -> <<"&", "l", "t", ";">>
      [] c = ">" -> <<"&", "g", "t", ";">>
      [] c = "&" -> <<"&", "a", "m", "p", ";">>
      [] c = "'" -> <<"&", "a", "p", "o", "s", ";">>
      [] c = "\"" -> <<"&", "q", "u", "o", "t", ";">>
      [] OTHER -> <<c>>

\* C16: HtmlEscape(s) is s with every `<`, `>`, `&`, `'`, `"` replaced by its
\* entity and every other character copied in order; no raw `<`, `>`, `'` or
\* `"` is left
C16_HtmlEscape ==
    fn = "escape" =>
        /\ ret = Concat([i \in 1..Len(old) |-> Replacement(old[i])])
        /\ \A i \in 1..Len(ret) : ret[i] \notin {"<", ">", "'", "\""}

C16_Witness ==
    /\ fn = "escape"
    /\ old = <<"<", "a", "'">>
    /\ ret = <<"&", "l", "t", ";", "a", "&", "a", "p", "o", "s", ";">>

\* the number of occurrences of c in s
Count(s, c) == Cardinality({i \in 1..Len(s) : s[i] = c})

\* s begins with marker and `{`, and some later `}` closes that brace: the
\* text between holds as many `{` as `}` and no prefix of it more `}` than `{`
BracedForm(s, marker) ==
    /\ Len(s) >= 3
    /\ s[1] = marker
    /\ s[2] = "{"
    /\ \E k \in 3..Len(s) :
        /\ s[k] = "}"
        /\ Count(SubSeq(s, 3, k - 1), "{") = Count(SubSeq(s, 3, k - 1), "}")
        /\ \A j \in 3..(k - 1) :
            Count(SubSeq(s, 3, j), "{") >= Count(SubSeq(s, 3, j), "}")

\* the unbraced forms of the test of subscript_superscript.rs
UnbracedForms ==
    { <<"_", "*">>, <<"_", "a", "b", "c">>, <<"_", "+", "1", "2", "3">> }

\* C17: with use_sub_superscript = Brace, subscript_node and superscript_node
\* succeed exactly on the braced form with balanced braces; `_*`, `_abc` and
\* `_+123` succeed in the mode True and fail in the mode Brace; `a_b` has no
\* subscript node and `a_{b}` has one
C17_BraceOnly ==
    /\ (fn = "subscript_node" /\ arg.c = "Brace") =>
        (ret.ok <=> BracedForm(old, "_"))
    /\ (fn = "superscript_node" /\ arg.c = "Brace") =>
        (ret.ok <=> BracedForm(old, "^"))
    /\ (fn = "subscript_node" /\ old \in UnbracedForms) =>
        (ret.ok <=> arg.c # "Brace")
    /\ (fn = "subscripts" /\ arg.c = "Brace" /\ old = <<"a", "_", "b">>) =>
        ret = {}
    /\ (fn = "subscripts" /\ arg.c = "Brace"
            /\ old = <<"a", "_", "{", "b", "}">>) =>
        ret = {2}

C17_Witness ==
    /\ fn = "subscript_node"
    /\ arg.c = "Brace"
    /\ old = <<"_", "a", "b", "c">>
    /\ ~ret.ok

\* the AFFILIATED_KEYWORD nodes that are prefix children of the parsed element
PrefixKeywords ==
    IF ret.ok THEN ChildNodes(ret.nodes[1], "AFFILIATED_KEYWORD") ELSE <<>>

\* the keyword line i of the input was taken as an affiliated keyword
TakenAsAffiliated(i) ==
    /\ ret.ok
    /\ i <= Len(PrefixKeywords)
    /\ TextOf(PrefixKeywords[i]) = AffiliatedLine(arg.lines[i])

\* C18 as stated: a line is taken as an affiliated keyword only when its
\* name, uppercased, is one of the configured names
C18_OnlyConfigured ==
    fn = "fn_def_node" =>
        \A i \in 1..Len(arg.lines) :
            TakenAsAffiliated(i) => to_uppercase(arg.lines[i].name) \in arg.c

\* C18: a line is taken as an affiliated keyword (a prefix child of the
\* following element) only when its name, uppercased, is one of the
\* configured names or begins with `ATTR_`; lines of configured names are
\* taken, and so is `#+ATTR_poi: 1` under the default configuration
C18_ConfiguredOrAttr ==
    fn = "fn_def_node" =>
        /\ \A i \in 1..Len(arg.lines) :
            TakenAsAffiliated(i) =>
                \/ to_uppercase(arg.lines[i].name) \in arg.c
                \/ starts_with(to_uppercase(arg.lines[i].name), ATTR)
        /\ (\A i \in 1..Len(arg.lines) : to_uppercase(arg.lines[i].name) \in arg.c)
            => \A i \in 1..Len(arg.lines) : TakenAsAffiliated(i)
        /\ (arg.c = DefaultAffiliated /\ Len(arg.lines) = 1
                /\ arg.lines[1].name = <<"A", "T", "T", "R", "_", "p", "o", "i">>)
            => TakenAsAffiliated(1)
        /\ ret.ok => TextOf(ret.nodes[1]) \o ret.rest = old

C18_Witness ==
    /\ fn = "fn_def_node"
    /\ arg.c = DefaultAffiliated
    /\ arg.lines = <<[name |-> <<"A", "T", "T", "R", "_", "p", "o", "i">>,
                     opt |-> FALSE]>>
    /\ ret.ok
    /\ Len(PrefixKeywords) = 1
    /\ ret.nodes[1].children[1].kind = "AFFILIATED_KEYWORD"

\* the headline at path ends before the end of the document g
EndsBeforeEnd(g, path) == RangeOf(g, path).end < TextLen(g)

\* the text of the headline at path ends with a line break
EndsWithLineBreak(g, path) ==
    /\ TextOf(NodeAt(g, path)) # <<>>
    /\ TextOf(NodeAt(g, path))[TextLen(NodeAt(g, path))] \in {"\n", "\r"}

\* C19 (as claimed): after parse and after every replace_range, every HEADLINE
\* node that does not end at the end of the document ends with `\n` or `\r`
C19_TrailingNewline ==
    ~call.panic =>
        \A path \in KindPaths(green, "HEADLINE") :
            EndsBeforeEnd(green, path) => EndsWithLineBreak(green, path)

\* the offset behind the first line break of the headline at path, or the
\* headline's end when its first line has no line break
AfterHeaderLine(g, path) ==
    IF LeadOut(TextOf(NodeAt(g, path)), Eol) < TextLen(NodeAt(g, path))
    THEN RangeOf(g, path).start + LeadOut(TextOf(NodeAt(g, path)), Eol) + 1
    ELSE RangeOf(g, path).end

\* the range lies between the character behind the stars and the following
\* character of the headline at path, and the headline's end
BehindStars(g, path, range) ==
    /\ RangeOf(g, path).start + HeadlineLevel(NodeAt(g, path)) + 1 <= range.start
    /\ range.end <= RangeOf(g, path).end

\* the paths of the HEADLINE children of the headline at path
SubHeadlines(g, path) ==
    {Append(path, i) : i \in {j \in 1..Len(NodeAt(g, path).children) :
                                 IsHeadline(NodeAt(g, Append(path, j)))}}

\* C20 (as claimed): a range classified InsideHeadline(H) starts behind the
\* first line break of H's first line
C20_InsideAfterHeader ==
    (fn = "RangeShape" /\ ret.shape = "InsideHeadline") =>
        arg.start >= AfterHeaderLine(green, ret.path)

\* C20: a range R is classified InsideHeadline(H, L) exactly when R is not
\* H's range, lies between the offset L + 1 behind H's start and H's end, and
\* is neither the range of a sub-headline of H nor within one in that way; L
\* is H's level
C20_InsideBehindStars ==
    (fn = "RangeShape" /\ ret.shape # "Panic") =>
        \A h \in KindPaths(green, "HEADLINE") :
            (ret.shape = "InsideHeadline" /\ ret.path = h)
            <=> /\ arg # RangeOf(green, h)
                /\ BehindStars(green, h, arg)
                /\ \A c \in SubHeadlines(green, h) :
                    arg # RangeOf(green, c) /\ ~BehindStars(green, c, arg)
                /\ ret.level = HeadlineLevel(NodeAt(green, h))

C20_Witness ==
    /\ fn = "RangeShape"
    /\ old = AbcDoc
    /\ arg = Range(3, 7)
    /\ ret.shape = "InsideHeadline"
    /\ ret.level = 2
    /\ arg.start < AfterHeaderLine(green, ret.path)

\* the number of stars at the line start i of text s
StarsAt(s, i) ==
    CHOOSE k \in 0..(Len(s) - i) :
        /\ \A j \in 1..k : s[i + j] = "*"
        /\ (i + k = Len(s) \/ s[i + k + 1] # "*")

\* the line starts of s that start a headline: stars and then a space
HeadlineStarts(s) ==
    {i \in {0} \cup {j \in 1..Len(s) : s[j] \in {"\n", "\r"}} :
        /\ StarsAt(s, i) >= 1
        /\ i + StarsAt(s, i) < Len(s)
        /\ s[i + StarsAt(s, i) + 1] = " "}

\* the smallest level among the headline starts of s
MinLevel(s) ==
    CHOOSE l \in {StarsAt(s, i) : i \in HeadlineStarts(s)} :
        \A i \in HeadlineStarts(s) : l <= StarsAt(s, i)

\* C21: ReplaceWithShape::new(S) is Other iff S has no headline start; it is
\* ExactHeadline(L) iff offset 0 is a headline start of level L and no other
\* headline start has a level <= L; otherwise it is IncludeHeadline; a result
\* other than Other carries the smallest level of the headline starts
C21_ReplaceWithShape ==
    fn = "ReplaceWithShape" =>
        /\ ret.shape = "Other" <=> HeadlineStarts(old) = {}
        /\ ret.shape = "ExactHeadline" <=>
            /\ 0 \in HeadlineStarts(old)
            /\ \A i \in HeadlineStarts(old) \ {0} : StarsAt(old, i) > StarsAt(old, 0)
        /\ ret.shape \in {"Other", "ExactHeadline", "IncludeHeadline"}
        /\ ret.shape # "Other" => ret.level = MinLevel(old)

C21_Witness ==
    /\ fn = "ReplaceWithShape"
    /\ old = <<"*", "*", " ", "\n", "*", " ">>
    /\ ret.shape = "IncludeHeadline"
    /\ ret.level = 1

\* this step is a call of replace_range that did not panic and whose range
\* was classified InsideHeadline
InsideStep ==
    /\ edits' = edits + 1
    /\ ~call'.panic
    /\ call'.rshape = "InsideHeadline"

\* the start of the range of this step's call follows a line break in the
\* headline the range was found in
StartFollowsNewline ==
    follows_newline(NodeAt(green, RangeShape(green, call'.range).path),
                    StartOf(green, RangeShape(green, call'.range).path),
                    call'.range.start)

\* C22 (as claimed): a call whose range is InsideHeadline(H, L), whose text
\* carries a level Lnew >= L and whose start follows a line break reparses H
\* alone
C22_InsideLocal ==
    [][(/\ InsideStep
        /\ call'.wshape \in {"ExactHeadline", "IncludeHeadline"}
        /\ call'.rlevel <= call'.wlevel
        /\ StartFollowsNewline)
       => call'.path = "headline"]_vars

\* C22: a call whose range is InsideHeadline(H, L) reparses H alone exactly
\* when the text is ExactHeadline(Lnew) with L <= Lnew and the start follows a
\* line break, or the text is IncludeHeadline(Lnew) with L < Lnew
C22_InsideLocalExact ==
    [][InsideStep =>
        (call'.path = "headline" <=>
            \/ /\ call'.wshape = "ExactHeadline"
               /\ call'.rlevel <= call'.wlevel
               /\ StartFollowsNewline
            \/ /\ call'.wshape = "IncludeHeadline"
               /\ call'.rlevel < call'.wlevel)]_vars

C22_Witness ==
    /\ Replaced
    /\ old = SiblingDoc
    /\ call.range = Range(4, 5)
    /\ call.rshape = "InsideHeadline"
    /\ call.wshape = "IncludeHeadline"
    /\ call.rlevel = call.wlevel
    /\ call.path = "full"
    /\ to_org(green) = Expected

\* this step is a call of replace_range that reparsed a headline alone
LocalStep ==
    /\ edits' = edits + 1
    /\ ~call'.panic
    /\ call'.path = "headline"

\* the path of the headline that this step's call reparses
LocalPath == RangeShape(green, call'.range).path

\* the paths of g to nodes and tokens
RECURSIVE ElementPaths(_, _)
ElementPaths(g, path) ==
    {path} \cup
    (IF IsToken(NodeAt(g, path)) THEN {}
     ELSE UNION {ElementPaths(g, Append(path, i)) :
                    i \in 1..Len(NodeAt(g, path).children)})

\* C23: a call that reparses the headline H alone leaves every element that
\* is neither H, within H nor an ancestor of H as it was, keeps the number of
\* children of every ancestor of H, and keeps the text before H's start and
\* the text after H's end
C23_LocalFrame ==
    [][LocalStep =>
        /\ \A q \in ElementPaths(green, <<>>) :
            (~IsPrefix(q, LocalPath) /\ ~IsPrefix(LocalPath, q)) =>
                /\ q \in ElementPaths(green', <<>>)
                /\ NodeAt(green', q) = NodeAt(green, q)
        /\ \A n \in 0..(Len(LocalPath) - 1) :
            Len(NodeAt(green', Take(LocalPath, n)).children)
                = Len(NodeAt(green, Take(LocalPath, n)).children)
        /\ IsHeadline(NodeAt(green', LocalPath))
        /\ Take(to_org(green'), RangeOf(green, LocalPath).start)
            = Take(to_org(green), RangeOf(green, LocalPath).start)
        /\ Drop(to_org(green'), RangeOf(green', LocalPath).end)
            = Drop(to_org(green), RangeOf(green, LocalPath).end)]_vars

C23_Witness ==
    /\ Replaced
    /\ old = NestedDoc
    /\ call.range = Range(4, 14)
    /\ call.path = "headline"
    /\ ~call.panic
    /\ NodeAt(green, <<1, 1>>) = NodeAt(FreshTree(NestedDoc), <<1, 1>>)
    /\ to_org(green) = <<"*", " ", "A", "\n", "*", "*", " ", "D">>

\* the positions of s that hold `}` behind an even number of `$`
ClosingBraces(s) ==
    {k \in 1..Len(s) : s[k] = "}" /\ Count(Take(s, k - 1), "$") % 2 = 0}

\* the lengths of an optional `{HINT}` at the start of s
HintLengths(s) ==
    {0} \cup {n \in 2..Len(s) :
                /\ s[1] = "{"
                /\ s[n] = "}"
                /\ \A j \in 2..(n - 1) : s[j] # "}"}

\* the lengths of an optional `@ID` at the start of s
IdLengths(s) ==
    {0} \cup {n \in 1..Len(s) : s[1] = "@" /\ \A j \in 2..n : s[j] # "}"}

\* the lengths of the clozes that s starts with: `{{`, a text that is not
\* empty and ends at the first closing brace k, `}`, an optional `{HINT}`, an
\* optional `@ID` and `}`
ClozeLengths(s) ==
    IF Len(s) < 2 \/ Take(s, 2) # <<"{", "{">> \/ ClosingBraces(Drop(s, 2)) = {}
    THEN {}
    ELSE LET k == MinOr(ClosingBraces(Drop(s, 2)), 0)
             tail == Drop(s, 2 + k)
         IN IF k = 1 THEN {}
            ELSE {2 + k + n : n \in {m \in 1..Len(tail) :
                    /\ tail[m] = "}"
                    /\ \E h \in HintLengths(tail) :
                        (m - 1 - h) \in IdLengths(Drop(tail, h))}}

\* C24: cloze_node succeeds exactly on an input that starts with a cloze of
\* that form, the text ending at the first `}` behind an even number of `$`;
\* on success the leaf texts are the consumed input, on failure nothing is
\* consumed
C24_Cloze ==
    fn = "cloze_node" =>
        /\ ret.ok <=> ClozeLengths(old) # {}
        /\ ret.ok =>
            /\ TextOf(ret.nodes[1]) \o ret.rest = old
            /\ ClozeLengths(old) = {TextLen(ret.nodes[1])}
            /\ TextOf(ret.nodes[1].children[2])
                = SubSeq(old, 3, 1 + MinOr(ClosingBraces(Drop(old, 2)), 0))
        /\ ~ret.ok => ret.rest = old

C24_Witness ==
    /\ fn = "cloze_node"
    /\ old = <<"{", "{", "$", "}", "$", "}", "}", "a">>
    /\ ret.ok
    /\ ret.rest = <<"a">>
    /\ TextOf(ret.nodes[1].children[2]) = <<"$", "}", "$">>

\* the lines that are a begin line of the name PROPERTIES in any case
PropertiesBeginLines == {LineProperties, LinePropertiesLower}

\* the lines that are a begin line `:NAME:`
BeginLines ==
    {LineProperties, LinePropertiesLower, LineDrawer, LineKeyOnly, LineEnd, LineEndLower}

\* the lines that are an `:END:` line
EndLines == {LineEnd, LineEndLower}

\* the lines `:KEY: VALUE` with a space or tab behind the key's colon, the
\* value possibly empty
PropertyLines ==
    {LineProperty, LinePropertyPlus, LineEndValue, LineEndLower, LinePropertiesLower}

\* the length of the first k lines of the input
LinesLen(k) ==
    IF k = 0 THEN 0 ELSE Len(LinesText(Take(arg.lines, k), arg.nl \/ k < Len(arg.lines)))

\* the last line of the blank lines that follow line k, or k
BlanksBehind(k) ==
    CHOOSE m \in k..Len(arg.lines) :
        /\ \A j \in (k + 1)..m : arg.lines[j] = LineBlank
        /\ (m = Len(arg.lines) \/ arg.lines[m + 1] # LineBlank)

\* C25: property_drawer_node succeeds only on a begin line of the name
\* PROPERTIES, in any case, followed by node property lines and an `:END:`
\* line, and then consumes these lines and the blank lines behind them; a
\* failure consumes nothing; lines of that form with values that are not
\* empty and a bare `:END:` are parsed
C25_PropertyDrawer ==
    fn = "property_drawer_node" =>
        /\ ret.ok =>
            /\ arg.lines[1] \in PropertiesBeginLines
            /\ \E k \in 2..Len(arg.lines) :
                /\ arg.lines[k] \in EndLines
                /\ \A j \in 2..(k - 1) : arg.lines[j] \in PropertyLines
                /\ TextLen(ret.nodes[1]) = LinesLen(BlanksBehind(k))
            /\ TextOf(ret.nodes[1]) \o ret.rest = old
        /\ ~ret.ok => ret.rest = old
        /\ (/\ arg.lines[1] \in PropertiesBeginLines
            /\ \E k \in 2..Len(arg.lines) :
                /\ arg.lines[k] = LineEnd
                /\ \A j \in 2..(k - 1) :
                    arg.lines[j] \in {LineProperty, LinePropertyPlus, LineEndValue})
            => ret.ok

C25_Witness ==
    /\ fn = "property_drawer_node"
    /\ arg.lines = <<LineProperties, LineNoSpace, LineEnd>>
    /\ ~ret.ok
    /\ ret.rest = old

\* the first `:END:` line behind the begin line
FirstEnd == MinOr({k \in 2..Len(arg.lines) : arg.lines[k] \in EndLines}, 0)

\* C26: drawer_node succeeds exactly on a begin line `:NAME:` with an `:END:`
\* line among the later lines; the drawer ends at the first such line, and its
\* content is the text between the blank lines behind the begin line and that
\* end line
C26_Drawer ==
    fn = "drawer_node" =>
        /\ ret.ok <=> (arg.lines[1] \in BeginLines /\ FirstEnd # 0)
        /\ ret.ok =>
            /\ TextOf(ret.nodes[1]) \o ret.rest = old
            /\ TextLen(ret.nodes[1]) = LinesLen(BlanksBehind(FirstEnd))
            /\ TextOf(ChildNodes(ret.nodes[1], "DRAWER_CONTENT")[1])
                = SubSeq(old, LinesLen(BlanksBehind(1)) + 1, LinesLen(FirstEnd - 1))
        /\ ~ret.ok => ret.rest = old

C26_Witness ==
    /\ fn = "drawer_node"
    /\ arg.lines = <<LineDrawer, LineText, LineEndLower>>
    /\ ret.ok
    /\ TextOf(ChildNodes(ret.nodes[1], "DRAWER_CONTENT")[1]) = <<"x", "\n">>

\* C27 (as claimed): the dispatch on `^` / `_` is allowed exactly when the
\* configuration is not off and the character in front of the marker exists
\* and is neither a space, a tab nor a line break
C27_PreNonWhitespace ==
    fn = "verify_pre" =>
        (ret <=> /\ arg.c # "Nil"
                 /\ old # <<>>
                 /\ old[Len(old)] \notin {" ", "\t", "\n", "\r"})

\* the headline at path has the range, or holds it behind its stars
EqualsOrHolds(g, path, range) ==
    range = RangeOf(g, path) \/ BehindStars(g, path, range)

\* C28: a result ExactHeadline(H, L) or InsideHeadline(H, L) names a headline
\* H of level L whose range contains R and none of whose sub-headlines has
\* the range R or holds R behind its stars; the result is Other exactly when
\* no top-level headline has the range R or holds it so
C28_DeepestHeadline ==
    (fn = "RangeShape" /\ ret.shape # "Panic") =>
        /\ ret.shape \in {"ExactHeadline", "InsideHeadline"} =>
            /\ IsHeadline(NodeAt(green, ret.path))
            /\ ret.level = HeadlineLevel(NodeAt(green, ret.path))
            /\ contains_range(RangeOf(green, ret.path), arg)
            /\ \A c \in SubHeadlines(green, ret.path) : ~EqualsOrHolds(green, c, arg)
        /\ ret.shape = "ExactHeadline" => arg = RangeOf(green, ret.path)
        /\ ret.shape = "Other" <=>
            \A t \in SubHeadlines(green, <<>>) : ~EqualsOrHolds(green, t, arg)

C28_Witness ==
    /\ fn = "RangeShape"
    /\ old = AbcSubDoc
    /\ arg = Range(9, 10)
    /\ ret.shape = "InsideHeadline"
    /\ ret.level = 2
    /\ Len(ret.path) = 2

RECURSIVE SectionsNested(_, _, _, _)
\* the section tags of out behind its first i tags are well nested, open
\* being the section open there ("none" for none) and heads the number of
\* <thead> of the table so far
SectionsNested(out, i, open, heads) ==
    IF i >= Len(out) THEN TRUE
    ELSE CASE out[i + 1] = "<table>" ->
                  open = "none" /\ SectionsNested(out, i + 1, "none", 0)
           [] out[i + 1] = "<thead>" ->
                  open = "none" /\ heads = 0 /\ SectionsNested(out, i + 1, "thead", 1)
           [] out[i + 1] = "<tbody>" ->
                  open = "none" /\ SectionsNested(out, i + 1, "tbody", heads)
           [] out[i + 1] = "<tr>" ->
                  open # "none" /\ SectionsNested(out, i + 1, open, heads)
           [] out[i + 1] = "</thead>" ->
                  open = "thead" /\ SectionsNested(out, i + 1, "none", heads)
           [] out[i + 1] = "</tbody>" ->
                  open = "tbody" /\ SectionsNested(out, i + 1, "none", heads)
           [] out[i + 1] = "</table>" ->
                  open = "none" /\ SectionsNested(out, i + 1, "none", heads)
           [] OTHER -> SectionsNested(out, i + 1, open, heads)

\* C29: at every point of the export of tables the section tags pushed so far
\* are well nested: <thead> and <tbody> open only when no section is open,
\* every <tr> is inside an open section, a section is closed by its own tag
\* before the next section and before </table>, and a table has at most one
\* <thead>; when the export is done every table is closed
C29_TableSections ==
    fn = "export_tables" =>
        /\ SectionsNested(ret.output, 0, "none", 0)
        /\ trav.done => /\ Count(ret.output, "<table>") = Len(arg)
                        /\ Count(ret.output, "</table>") = Len(arg)
                        /\ ret.output[Len(ret.output)] = "</table>"

\* a header table of a row, a rule, a row, a rule is exported: a <thead> and
\* a <tbody>, each closed at its rule
C29_Witness ==
    /\ fn = "export_tables"
    /\ trav.done
    /\ arg = <<OrgTable(TRUE, <<FALSE, TRUE, FALSE, TRUE>>)>>
    /\ ret.output = <<"<table>", "<thead>", "<tr>", "</tr>", "</thead>",
                      "<tbody>", "<tr>", "</tr>", "</tbody>", "</table>">>

\* the tag a list of the walk is to be opened with
ListTag(f) ==
    IF f.is_ordered THEN "ol" ELSE IF f.is_descriptive THEN "dl" ELSE "ul"

\* what has to be open behind the events of the walk so far: per list its
\* tag, per item li in a list opened as ol or ul and dd in one opened as dl
OpenTags ==
    [i \in 1..Len(trav.stack) |->
        IF trav.stack[i].kind = "LIST" THEN ListTag(trav.stack[i])
        ELSE IF ListTag(trav.stack[i - 1]) = "dl" THEN "dd" ELSE "li"]

RECURSIVE TagsOpen(_, _, _)
\* the elements left open by the tags of out behind its first i tags, open
\* being those open there; <<"mismatch">> when a closing tag does not close
\* the innermost open element
TagsOpen(out, i, open) ==
    LET Opening(t) == TagsOpen(out, i + 1, Append(open, t))
        Closing(t) ==
            IF open # <<>> /\ open[Len(open)] = t
            THEN TagsOpen(out, i + 1, SubSeq(open, 1, Len(open) - 1))
            ELSE <<"mismatch">>
    IN IF i >= Len(out) THEN open
       ELSE CASE out[i + 1] = "<ol>" -> Opening("ol")
              [] out[i + 1] = "<ul>" -> Opening("ul")
              [] out[i + 1] = "<dl>" -> Opening("dl")
              [] out[i + 1] = "<li>" -> Opening("li")
              [] out[i + 1] = "<dt>" -> Opening("dt")
              [] out[i + 1] = "<dd>" -> Opening("dd")
              [] out[i + 1] = "</ol>" -> Closing("ol")
              [] out[i + 1] = "</ul>" -> Closing("ul")
              [] out[i + 1] = "</dl>" -> Closing("dl")
              [] out[i + 1] = "</li>" -> Closing("li")
              [] out[i + 1] = "</dt>" -> Closing("dt")
              [] out[i + 1] = "</dd>" -> Closing("dd")
              [] OTHER -> TagsOpen(out, i + 1, open)

\* C30: at every point of the export of nested lists in_descriptive_list has
\* one entry per open list, TRUE for the lists opened as <dl>; every closing
\* tag pushed so far closes the innermost open element, and the elements left
\* open are those of the walk: each list under the tag of its kind, each item
\* as <dd> behind <dt>..</dt> in a list opened as <dl> and as <li> otherwise
C30_ListStack ==
    fn = "export_lists" =>
        /\ Len(ret.in_descriptive_list) = Cardinality(OpenLists)
        /\ ret.in_descriptive_list =
              [k \in 1..Cardinality(OpenLists) |->
                  ListTag(trav.stack[2 * k - 1]) = "dl"]
        /\ TagsOpen(ret.output, 0, <<>>) = OpenTags

\* a descriptive list of one item that holds an ordered list of one item has
\* been exported
C30_Witness ==
    /\ fn = "export_lists"
    /\ trav.stack = <<>>
    /\ ret.in_descriptive_list = <<>>
    /\ ret.output = <<"<dl>", "<dt>", "</dt>", "<dd>", "<ol>", "<li>", "</li>",
                      "</ol>", "</dd>", "</dl>">>

====
